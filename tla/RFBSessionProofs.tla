--------------------------- MODULE RFBSessionProofs ---------------------------
(***************************************************************************)
(* The client and a server that follows RFC 6143 stay in step, for all     *)
(* versions, sizes, encodings, chunks and any number of fields under way.  *)
(*                                                                         *)
(* In the startup the two take turns, and the few fields under way can be  *)
(* listed.  After it the server runs ahead.  Then the stream is a path: it *)
(* leads from the place where the client's parser is, field by field, to   *)
(* the place where the server is.                                          *)
(***************************************************************************)
EXTENDS RFBSession, RFBClientProofs, FiniteSetTheorems

-----------------------------------------------------------------------------
(* Places in the session, and the fields that lead from one to the next.   *)

\* A handler, the length of its block, its arguments, and the rectangles to come.
Place(h, n, a, r) == [h |-> h, n |-> n, a |-> a, r |-> r]
Places == [h : Handlers, n : Nat, a : Args, r : Nat]

\* Between two messages, or two rectangles, of which r are to come.
Between(r) ==
  IF r # 0 THEN Place("_handleRectangle", 12, NoArgs, r)
  ELSE Place("_handleConnection", 1, NoArgs, 0)

\* Behind a tile of a Hextile rectangle.
BehindTile(a, r) ==
  IF a.tiles = 1 THEN Between(r)
  ELSE Place("_handleDecodeHextile", 1, [a EXCEPT !.tiles = a.tiles - 1, !.sub = "none"], r)

\* Behind the first byte of a message.
BehindType(v) ==
  CASE v = "framebufferUpdate" -> Place("_handleFramebufferUpdate", 3, NoArgs, 0)
    [] v = "setColourMapEntries" -> Place("_handleColourMapEntries", 5, NoArgs, 0)
    [] v = "serverCutText" -> Place("_handleServerCutText", 7, NoArgs, 0)
    [] OTHER -> Between(0)

\* Behind a rectangle's header, with r rectangles to come.
BehindHeader(v, r) ==
  CASE v.encoding = "raw" -> Place("_pumpPixels", v.w * Bypp, Of(v.w), r)
    [] v.encoding = "copyRect" -> Place("_pumpForClient", 4, NoArgs, r)
    [] v.encoding = "rre" -> Place("_handleDecodeRRE", 4 + Bypp, Of(v.w), r)
    [] v.encoding = "zrle" -> Place("_handleDecodeZRLE", 4, NoArgs, r)
    [] v.encoding = "cursor" ->
         Place("_handleDecodePsuedoCursor", v.w * Bypp + ((v.w + 7) \div 8), Of(v.w), r)
    [] v.encoding = "hextile" ->
         Place("_handleDecodeHextile", 1, [Of(v.w) EXCEPT !.tiles = v.tiles], r)
    [] v.encoding = "lastRect" -> Between(0)
    [] OTHER -> Between(r)

\* Behind the mask of a tile.
BehindMask(p, v) ==
  IF v[1] THEN Place("_handleDecodeHextileRAW", p.a.w * Bypp, p.a, p.r)
  ELSE Place("_handleDecodeHextileSubrect",
             (IF v[2] THEN Bypp ELSE 0) + (IF v[3] THEN Bypp ELSE 0)
               + (IF v[4] # "none" THEN 1 ELSE 0),
             [p.a EXCEPT !.bg = p.a.bg \/ v[2], !.fg = p.a.fg \/ v[3], !.sub = v[4]], p.r)

\* Behind the colours of a tile, with v subrectangles.
BehindColours(p, v) ==
  CASE v = 0 -> BehindTile(p.a, p.r)
    [] v # 0 /\ p.a.sub = "coloured" ->
         Place("_handleDecodeHextileSubrectsColoured", (Bypp + 2) * v, p.a, p.r)
    [] OTHER -> Place("_handleDecodeHextileSubrectsFG", 2 * v, p.a, p.r)

\* Behind a field whose value is v.
Behind(p, v) ==
  CASE p.h = "_handleConnection" -> BehindType(v)
    [] p.h = "_handleColourMapEntries" -> Place("_handleColourMapEntriesValue", 6 * v, NoArgs, 0)
    [] p.h = "_handleServerCutText" -> Place("_handleServerCutTextValue", v, NoArgs, 0)
    [] p.h \in {"_handleColourMapEntriesValue", "_handleServerCutTextValue"} -> Between(0)
    [] p.h = "_handleFramebufferUpdate" -> Between(v)
    [] p.h = "_handleRectangle" -> BehindHeader(v, p.r - 1)
    [] p.h = "_handleDecodeRRE" ->
         IF v # 0 THEN Place("_handleRRESubRectangles", (8 + Bypp) * v, NoArgs, p.r)
                  ELSE Between(p.r)
    [] p.h = "_handleDecodeZRLE" -> Place("_handleDecodeZRLEdata", v, NoArgs, p.r)
    [] p.h = "_handleDecodeHextile" -> BehindMask(p, v)
    [] p.h = "_handleDecodeHextileSubrect" -> BehindColours(p, v)
    [] p.h \in {"_handleDecodeHextileRAW", "_handleDecodeHextileSubrectsFG"} ->
         BehindTile(p.a, p.r)
    [] p.h = "_handleDecodeHextileSubrectsColoured" ->
         BehindTile([p.a EXCEPT !.fg = TRUE], p.r)
    [] OTHER -> Between(p.r)

\* Handlers that read the messages of this server.
Reading ==
  SessionHandlers \ {"_handleDecodeCORRE", "_handleDecodeCORRERectangles"}

Announced == {"framebufferUpdate", "setColourMapEntries", "serverCutText", "bell"}
Known == {"raw", "copyRect", "rre", "zrle", "cursor", "hextile", "lastRect", "desktopSize",
          "qemuKey"}
Headers == [encoding : Known, w : Nat, tiles : Nat]
Masks == {<<TRUE, FALSE, FALSE, "none">>, <<FALSE, TRUE, FALSE, "none">>,
          <<FALSE, TRUE, TRUE, "none">>, <<FALSE, TRUE, TRUE, "fg">>,
          <<FALSE, TRUE, FALSE, "coloured">>}

\* A header of a server that uses the encodings u.
HeaderFits(u, v) ==
  /\ v \in Headers /\ v.encoding \in u
  /\ v.encoding \in {"raw", "rre", "hextile"} => v.w # 0
  /\ v.encoding = "hextile" => v.w = 1 /\ v.tiles # 0

\* A value that the handler at p can take.
ValueFits(u, p, v) ==
  /\ p.h \in MessageHandlers => p.r = 0
  /\ p.h = "_handleConnection" => v \in Announced
  /\ p.h \in {"_handleServerCutText", "_handleColourMapEntries", "_handleDecodeRRE",
              "_handleDecodeZRLE", "_handleDecodeHextileSubrect"} => v \in Nat
  /\ p.h = "_handleFramebufferUpdate" => v \in Nat \ {0}
  /\ p.h = "_handleRectangle" => p.r # 0 /\ HeaderFits(u, v)
  /\ p.h = "_handleDecodeHextile" => v \in Masks
  /\ p.h \in HextileHandlers => p.a.tiles # 0 /\ p.a.w = 1
  /\ p.h = "_handleDecodeHextileSubrect" => p.a.bg /\ (p.a.sub = "none" => v = 0)

\* The field f is what the handler at p waits for.
Fits(u, p, f) ==
  /\ p.h \in Reading /\ f.kind = Reads(p.h) /\ f.len = p.n /\ ValueFits(u, p, f.value)

\* The fields s lead from p to e, by way of the places in via.
Leads(u, s, p, e, via) ==
  /\ via \in [1..Len(s) + 1 -> Places] /\ via[1] = p /\ via[Len(s) + 1] = e
  /\ \A i \in 1..Len(s) : Fits(u, via[i], s[i]) /\ via[i + 1] = Behind(via[i], s[i].value)
Path(u, s, p, e) == \E via : Leads(u, s, p, e, via)

\* The fields s are n bytes; rest has what is left of them from each field on.
Sums(s, n, rest) ==
  /\ rest \in [1..Len(s) + 1 -> Nat] /\ rest[1] = n /\ rest[Len(s) + 1] = 0
  /\ \A i \in 1..Len(s) : rest[i] = s[i].len + rest[i + 1]
Total(s, n) == \E rest : Sums(s, n, rest)

-----------------------------------------------------------------------------
(* The invariant.                                                          *)

Kinds ==
  {"ProtocolVersion", "NumberOfSecurityTypes", "SecurityTypes", "SecurityType", "Challenge",
   "DHParameters", "DHModulus", "DHPublicKey", "SecurityResult", "ReasonLength", "Reason",
   "ServerInit", "Name", "MessageType", "UpdateHeader", "RectangleHeader", "RawPixels",
   "CopyRectSource", "RREHeader", "RRESubrectangles", "HextileMask", "HextileRaw",
   "HextileColours", "HextileSubrectangles", "ZRLELength", "ZRLEData", "CursorPixels",
   "CutTextHeader", "CutText", "ColourMapHeader", "ColourMap"}
Values ==
  Nat \cup Announced \cup (SUBSET Nat) \cup (Nat \X Nat) \cup Headers \cup Masks
Fields == [kind : Kinds, len : Nat, value : Values]

\* Where the client and the server are.
Here == Place(expectedHandler, expectedLen, args, rectangles)
ServerAt(e) ==
  IF tiles # 0
    THEN /\ e.h = "_handleDecodeHextile" /\ e.n = 1 /\ e.r = owed
         /\ e.a.tiles = tiles /\ e.a.w = 1
    ELSE e = Between(owed)

At(h, n) == expectedHandler = h /\ expectedLen = n

Greets ==
  \/ phase = "start" /\ At("_handleInitial", 12) /\ stream = <<>> /\ wrote = <<>>
  \/ /\ phase = "greeted" /\ At("_handleInitial", 12) /\ wrote = <<>>
     /\ \E v \in ServerVersions : stream = <<F("ProtocolVersion", 12, v)>>
  \/ /\ phase = "greeted" /\ wrote = <<"version">> /\ stream = <<>>
     /\ IF version < 3007 THEN At("_handleAuth", 4) ELSE At("_handleNumberSecurityTypes", 1)

OfferOf(types) ==
  /\ types \in SUBSET {AuthNone, AuthVNC, AuthDH, 16} /\ types \cap SupportedAuths # {}
  /\ wrote = <<"version">>
  /\ \/ /\ At("_handleNumberSecurityTypes", 1)
        /\ stream = <<F("NumberOfSecurityTypes", 1, Cardinality(types)),
                      F("SecurityTypes", Cardinality(types), types)>>
     \/ /\ At("_handleSecurityTypes", Cardinality(types))
        /\ stream = <<F("SecurityTypes", Cardinality(types), types)>>

Offers ==
  /\ phase = "offered" /\ version >= 3007
  /\ \/ \E types : OfferOf(types)
     \/ /\ stream = <<>>
        /\ \/ At("_handleVNCAuthResult", 4) /\ wrote = <<"none">> /\ version >= 3008
           \/ At("_handleServerInit", 24) /\ wrote = <<"none", "init">> /\ version < 3008
           \/ At("_handleVNCAuth", 16) /\ wrote = <<"vnc">>
           \/ At("_handleDHAuth", 4) /\ wrote = <<"dh">>

KeyExchange(n) ==
  \/ /\ At("_handleDHAuth", 4)
     /\ stream = <<F("DHParameters", 4, n), F("DHModulus", n, 0), F("DHPublicKey", n, 0)>>
  \/ /\ At("_handleDHAuthKey", n) /\ args.w = n
     /\ stream = <<F("DHModulus", n, 0), F("DHPublicKey", n, 0)>>
  \/ At("_handleDHAuthCert", n) /\ stream = <<F("DHPublicKey", n, 0)>>

Challenges ==
  /\ phase = "challenged"
  /\ \/ /\ wrote # <<"response">>
        /\ \/ /\ At("_handleAuth", 4)
              /\ stream = <<F("SecurityType", 4, AuthVNC), F("Challenge", 16, 0)>>
           \/ At("_handleVNCAuth", 16) /\ stream = <<F("Challenge", 16, 0)>>
           \/ \E n \in Lengths : KeyExchange(n)
     \/ wrote = <<"response">> /\ At("_handleVNCAuthResult", 4) /\ stream = <<>>

Inits == {<<"init">>, <<"none", "init">>}
Accepts ==
  /\ phase = "accepted"
  /\ \/ /\ At("_handleAuth", 4) /\ wrote \notin Inits
        /\ stream = <<F("SecurityType", 4, AuthNone)>>
     \/ /\ At("_handleVNCAuthResult", 4) /\ wrote \notin Inits
        /\ stream = <<F("SecurityResult", 4, 0)>>
     \/ At("_handleServerInit", 24) /\ wrote \in Inits /\ stream = <<>>

RefusesWith(n) ==
  \/ /\ At("_handleNumberSecurityTypes", 1)
     /\ stream = <<F("NumberOfSecurityTypes", 1, 0), F("ReasonLength", 4, n), F("Reason", n, 0)>>
  \/ /\ At("_handleAuth", 4)
     /\ stream = <<F("SecurityType", 4, 0), F("ReasonLength", 4, n), F("Reason", n, 0)>>
  \/ /\ At("_handleVNCAuthResult", 4) /\ version >= 3008
     /\ \E r \in {1, 2} :
          stream = <<F("SecurityResult", 4, r), F("ReasonLength", 4, n), F("Reason", n, 0)>>
  \/ /\ At("_handleConnFailed", 4) \/ At("_handleAuthFailed", 4)
     /\ stream = <<F("ReasonLength", 4, n), F("Reason", n, 0)>>
  \/ /\ At("_handleConnMessage", n) \/ At("_handleAuthFailedMessage", n)
     /\ stream = <<F("Reason", n, 0)>>

Refuses ==
  /\ phase = "refused"
  /\ \/ \E n \in Lengths : RefusesWith(n)
     \/ /\ At("_handleVNCAuthResult", 4) /\ version < 3008
        /\ \E r \in {1, 2} : stream = <<F("SecurityResult", 4, r)>>

Starts ==
  /\ phase = "running" /\ wrote # <<"encodings">>
  /\ \E n \in Lengths :
       \/ /\ At("_handleServerInit", 24)
          /\ stream = <<F("ServerInit", 24, <<desktop, n>>), F("Name", n, 0)>>
       \/ At("_handleServerName", n) /\ stream = <<F("Name", n, 0)>> /\ width = desktop

\* The startup is not over.
Startup ==
  /\ Greets \/ Offers \/ Challenges \/ Accepts \/ Refuses \/ Starts
  /\ owed = 0 /\ tiles = 0 /\ rectangles = 0 /\ rectanglePos = 0
  /\ factoryDeferred # "made" /\ ~deferred

\* It is.
Serves ==
  /\ phase = "running" /\ wrote = <<"encodings">>
  /\ \E e : Path(uses, stream, Here, e) /\ ServerAt(e)

\* The client has given up, and no more is to come.
GaveUp ==
  /\ stream = <<>> /\ reported # "none" /\ owed = 0 /\ tiles = 0
  /\ \/ phase = "refused"
     \/ phase = "challenged" /\ wrote # <<"response">> /\ expectedHandler = "_handleVNCAuthResult"

ClientTypes ==
  /\ packet \in Nat /\ expectedLen \in Nat /\ args \in Args /\ pumping \in BOOLEAN
  /\ aborted \in BOOLEAN /\ version \in {0, 3003, 3007, 3008} /\ width \in Nat
  /\ rectangles \in Nat /\ rectanglePos \in Nat /\ painted \in BOOLEAN
  /\ deferred \in BOOLEAN /\ requested \in BOOLEAN
  /\ factoryDeferred \in {"pending", "made", "failed"}
  /\ transport \in {"open", "closing", "closed"}

ServerTypes ==
  /\ stream \in Seq(Fields) /\ wire \in Nat /\ uses \in ServerUses /\ owed \in Nat /\ tiles \in Nat
  /\ desktop \in Widths

SessionTypes == ClientTypes /\ ServerTypes

\* A handler that is called has its block; nobody is called once all is over.
Blocks ==
  /\ pumping /\ expectedHandler # "_handleInitial" => packet >= expectedLen
  /\ aborted \/ transport = "closed" => ~pumping
  /\ aborted => transport # "open"

InStep ==
  /\ transport = "open" => (Startup \/ Serves) /\ Total(stream, packet + wire) /\ reported = "none"
  /\ transport = "closing" /\ ~aborted => GaveUp

\* Every rectangle of the update was painted, or will be.
Paints ==
  IF expectedHandler \in HextileHandlers \cup {"_pumpPixels", "_handleDecodeRRE"} THEN args.w # 0
  ELSE IF expectedHandler \in {"_handleDecodeZRLE", "_handleDecodeZRLEdata"} THEN TRUE
  ELSE /\ expectedHandler \notin {"_pumpForClient", "_handleDecodePsuedoCursor"}
       /\ rectanglePos # 0 => painted

Painting ==
  uses \cap {"cursor", "copyRect"} = {} =>
    lastRefresh # "unpainted" /\ (transport = "open" => Paints)

\* No rectangle is too large for memory, and the pixel format asked for is usable.
Benign == ~MemoryErrors /\ RequestedFormatUsable

SInv ==
  /\ SessionTypes /\ Blocks /\ InStep /\ RequestOutstanding /\ Painting
  /\ Benign => ServerUnderstood

\* The Raw rectangles among the fields s are at most n wide.
FitsWidth(s, n) ==
  /\ \E T : s \in Seq(T)
  /\ \A i \in 1..Len(s) :
       s[i].kind = "RectangleHeader" /\ s[i].value.encoding = "raw" => s[i].value.w <= n

\* The Raw rectangles under way fit the size in ServerInit until the desktop
\* outgrows it.
Sizes ==
  transport = "open" /\ phase = "running" /\ wrote = <<"encodings">> /\ ~grown
    => desktop <= width /\ FitsWidth(stream, width)

-----------------------------------------------------------------------------
(* Paths and their bytes.                                                  *)

\* The elements of a sequence that was prolonged.
LEMMA Prolonged ==
  ASSUME NEW S, NEW s \in Seq(S), NEW f \in S
  PROVE  /\ Append(s, f) \in Seq(S) /\ Len(Append(s, f)) = Len(s) + 1 /\ Len(s) \in Nat
         /\ \A i \in 1..Len(s) : Append(s, f)[i] = s[i]
         /\ Append(s, f)[Len(s) + 1] = f
OBVIOUS

\* A sequence without its head.
LEMMA Beheaded ==
  ASSUME NEW S, NEW s \in Seq(S), s # <<>>
  PROVE  /\ Tail(s) \in Seq(S) /\ Len(Tail(s)) = Len(s) - 1 /\ Len(s) \in Nat \ {0}
         /\ Head(s) = s[1] /\ s[1] \in S
         /\ \A i \in 1..Len(s) - 1 : Tail(s)[i] = s[i + 1]
OBVIOUS

\* Sequences with the same elements are the same.
LEMMA SameSeq ==
  ASSUME NEW S, NEW s \in Seq(S), NEW t \in Seq(S), Len(s) = Len(t),
         \A i \in 1..Len(s) : s[i] = t[i]
  PROVE  s = t
OBVIOUS

\* Up to three elements, one by one.
LEMMA Appended ==
  ASSUME NEW x, NEW y, NEW z
  PROVE  Append(<<>>, x) = <<x>> /\ Append(<<x>>, y) = <<x, y>> /\ Append(<<x, y>>, z) = <<x, y, z>>
<1> DEFINE S == {x, y, z}
           s == <<x>>
           t == <<x, y>>
           u == <<x, y, z>>
<1>1. x \in S /\ y \in S /\ z \in S
  OBVIOUS
<1>2. /\ s \in Seq(S) /\ Len(s) = 1 /\ s[1] = x
      /\ t \in Seq(S) /\ Len(t) = 2 /\ t[1] = x /\ t[2] = y
      /\ u \in Seq(S) /\ Len(u) = 3 /\ u[1] = x /\ u[2] = y /\ u[3] = z
  OBVIOUS
<1>5. s \in Seq(S) /\ t \in Seq(S) /\ y \in S /\ z \in S
  BY <1>1, <1>2
<1>6. Append(<<>>, x) = s
  OBVIOUS
<1> HIDE DEF S, s, t, u
<1>3. Append(s, y) = t
  <2>1. /\ Append(s, y) \in Seq(S) /\ Len(Append(s, y)) = 2
        /\ Append(s, y)[1] = s[1] /\ Append(s, y)[2] = y
    <3>1. /\ Append(s, y) \in Seq(S) /\ Len(Append(s, y)) = Len(s) + 1
          /\ \A i \in 1..Len(s) : Append(s, y)[i] = s[i]
          /\ Append(s, y)[Len(s) + 1] = y
      BY <1>5, Prolonged
    <3>2. Len(s) + 1 = 2 /\ 1 \in 1..Len(s)
      BY <1>2
    <3> QED
      BY <3>1, <3>2
  <2>2. \A i \in 1..2 : Append(s, y)[i] = t[i]
    BY <1>2, <2>1
  <2> QED
    BY <1>2, <2>1, <2>2, SameSeq
<1>4. Append(t, z) = u
  <2>1. /\ Append(t, z) \in Seq(S) /\ Len(Append(t, z)) = 3
        /\ Append(t, z)[1] = t[1] /\ Append(t, z)[2] = t[2] /\ Append(t, z)[3] = z
    <3>1. /\ Append(t, z) \in Seq(S) /\ Len(Append(t, z)) = Len(t) + 1
          /\ \A i \in 1..Len(t) : Append(t, z)[i] = t[i]
          /\ Append(t, z)[Len(t) + 1] = z
      BY <1>5, Prolonged
    <3>2. Len(t) + 1 = 3 /\ 1 \in 1..Len(t) /\ 2 \in 1..Len(t)
      BY <1>2
    <3> QED
      BY <3>1, <3>2
  <2>2. \A i \in 1..3 : Append(t, z)[i] = u[i]
    BY <1>2, <2>1
  <2> QED
    BY <1>2, <2>1, <2>2, SameSeq
<1> QED
  BY <1>6, <1>3, <1>4 DEF s, t, u

\* A sequence followed by up to three elements.
LEMMA Joined ==
  ASSUME NEW S, NEW s \in Seq(S), NEW f \in S, NEW g \in S, NEW h \in S
  PROVE  /\ s \o <<>> = s /\ <<>> \o s = s
         /\ s \o <<f>> = Append(s, f)
         /\ s \o <<f, g>> = Append(Append(s, f), g)
         /\ s \o <<f, g, h>> = Append(Append(Append(s, f), g), h)
<1>1. s \o <<>> = s /\ <<>> \o s = s
  OBVIOUS
<1>2. s \o <<f>> = Append(s, f)
  OBVIOUS
<1>3. s \o <<f, g>> = Append(Append(s, f), g)
  OBVIOUS
<1>4. s \o <<f, g, h>> = Append(Append(Append(s, f), g), h)
  OBVIOUS
<1> QED
  BY <1>1, <1>2, <1>3, <1>4

\* The fields of a message, joined.
LEMMA FewFields ==
  ASSUME NEW f, NEW g, NEW h
  PROVE  /\ <<f>> \o <<>> = <<f>> /\ <<f, g>> \o <<>> = <<f, g>>
         /\ <<f>> \o <<g, h>> = <<f, g, h>> /\ <<f, g>> \o <<h>> = <<f, g, h>>
         /\ <<>> \o <<f>> = <<f>> /\ <<>> \o <<f, g>> = <<f, g>> /\ <<>> \o <<f, g, h>> = <<f, g, h>>
<1> DEFINE S == {f, g, h}
           s == <<f>>
           t == <<f, g>>
           u == <<f, g, h>>
<1>1. f \in S /\ g \in S /\ h \in S /\ s \in Seq(S) /\ t \in Seq(S) /\ u \in Seq(S)
  OBVIOUS
<1> HIDE DEF S
<1>2. Append(s, g) = t /\ Append(t, h) = u
  BY Appended
<1> HIDE DEF s, t, u
<1>3. s \o <<>> = s /\ t \o <<>> = t /\ <<>> \o s = s /\ <<>> \o t = t /\ <<>> \o u = u
  BY <1>1, Joined
<1>4. s \o <<g, h>> = u /\ t \o <<h>> = u
  <2>1. s \o <<g, h>> = Append(Append(s, g), h) /\ t \o <<h>> = Append(t, h)
    BY <1>1, Joined
  <2> QED
    BY <1>2, <2>1
<1> QED
  BY <1>3, <1>4 DEF s, t, u

\* Fields have a length.
LEMMA FieldLengths == \A f \in Fields : f.len \in Nat
BY DEF Fields

\* No fields lead nowhere.
LEMMA PathNowhere ==
  ASSUME NEW u, NEW p \in Places
  PROVE  Path(u, <<>>, p, p)
<1> DEFINE via == [i \in 1..1 |-> p]
<1>1. Leads(u, <<>>, p, p, via)
  BY DEF Leads
<1> QED
  BY <1>1 DEF Path

\* ... and nowhere else.
LEMMA PathEnds ==
  ASSUME NEW u, NEW p, NEW e, Path(u, <<>>, p, e)
  PROVE  p = e
BY DEF Path, Leads

\* Both ends of a path are places.
LEMMA PathPlaces ==
  ASSUME NEW u, NEW s \in Seq(Fields), NEW p, NEW e, Path(u, s, p, e)
  PROVE  p \in Places /\ e \in Places
<1>1. PICK via : Leads(u, s, p, e, via)
  BY DEF Path
<1>2. 1 \in 1..Len(s) + 1 /\ Len(s) + 1 \in 1..Len(s) + 1
  OBVIOUS
<1> QED
  BY <1>1, <1>2 DEF Leads

\* The server sends a field more.
LEMMA PathGrows ==
  ASSUME NEW u, NEW s \in Seq(Fields), NEW p, NEW e, Path(u, s, p, e),
         NEW f \in Fields, Fits(u, e, f), Behind(e, f.value) \in Places
  PROVE  Path(u, Append(s, f), p, Behind(e, f.value))
<1> DEFINE q == Behind(e, f.value)
           k == Len(s) + 1
           t == Append(s, f)
<1>1. PICK via : Leads(u, s, p, e, via)
  BY DEF Path
<1> DEFINE on == [i \in 1..k + 1 |-> IF i = k + 1 THEN q ELSE via[i]]
<1>2. /\ Len(t) = k /\ k \in Nat \ {0} /\ Len(s) \in Nat
      /\ \A i \in 1..Len(s) : t[i] = s[i]
      /\ t[k] = f
  BY Prolonged
<1> HIDE DEF q, t
<1>3. on \in [1..k + 1 -> Places] /\ on[1] = p /\ on[k + 1] = q
  BY <1>1, <1>2 DEF Leads, q
<1>4. ASSUME NEW i \in 1..k
      PROVE  Fits(u, on[i], t[i]) /\ on[i + 1] = Behind(on[i], t[i].value)
  <2>1. CASE i = k
    <3>1. on[i] = e /\ on[i + 1] = q /\ t[i] = f
      BY <1>1, <1>2, <2>1 DEF Leads
    <3> QED
      BY <3>1 DEF q
  <2>2. CASE i # k
    <3>1. i \in 1..Len(s) /\ on[i] = via[i] /\ on[i + 1] = via[i + 1] /\ t[i] = s[i]
      BY <1>2, <2>2
    <3> QED
      BY <1>1, <3>1 DEF Leads
  <2> QED
    BY <2>1, <2>2
<1>5. Leads(u, t, p, q, on)
  BY <1>2, <1>3, <1>4 DEF Leads
<1> QED
  BY <1>5 DEF Path, q, t

\* The client takes the first.
LEMMA PathShrinks ==
  ASSUME NEW u, NEW s \in Seq(Fields), NEW p, NEW e, Path(u, s, p, e), s # <<>>
  PROVE  /\ Fits(u, p, Head(s)) /\ Behind(p, Head(s).value) \in Places
         /\ Path(u, Tail(s), Behind(p, Head(s).value), e)
<1>1. PICK via : Leads(u, s, p, e, via)
  BY DEF Path
<1>2. /\ Len(s) \in Nat \ {0} /\ Len(Tail(s)) = Len(s) - 1 /\ Head(s) = s[1]
      /\ \A i \in 1..Len(s) - 1 : Tail(s)[i] = s[i + 1]
  BY Beheaded
<1> DEFINE q == Behind(p, Head(s).value)
           on == [i \in 1..Len(s) |-> via[i + 1]]
<1>3. Fits(u, p, Head(s)) /\ via[2] = q
  <2>1. 1 \in 1..Len(s) /\ 1 + 1 = 2
    BY <1>2
  <2> QED
    BY <1>1, <1>2, <2>1 DEF Leads
<1>4. on \in [1..Len(s) -> Places] /\ on[1] = q /\ on[Len(s)] = e
  BY <1>1, <1>2, <1>3 DEF Leads
<1> HIDE DEF q
<1>5. ASSUME NEW i \in 1..Len(s) - 1
      PROVE  Fits(u, on[i], Tail(s)[i]) /\ on[i + 1] = Behind(on[i], Tail(s)[i].value)
  <2>1. /\ i + 1 \in 1..Len(s) /\ on[i] = via[i + 1] /\ on[i + 1] = via[(i + 1) + 1]
        /\ Tail(s)[i] = s[i + 1]
    BY <1>2
  <2> QED
    BY <1>1, <2>1 DEF Leads
<1>6. Leads(u, Tail(s), q, e, on)
  <2>1. Len(Tail(s)) + 1 = Len(s) /\ 1..Len(Tail(s)) = 1..Len(s) - 1
    BY <1>2
  <2> HIDE DEF on
  <2> QED
    BY <1>4, <1>5, <2>1 DEF Leads
<1>7. q \in Places
  BY <1>2, <1>4
<1> QED
  BY <1>3, <1>6, <1>7 DEF Path, q

\* The same for the bytes of a stream.
LEMMA TotalNothing == Total(<<>>, 0)
<1> DEFINE rest == [i \in 1..1 |-> 0]
<1>1. Sums(<<>>, 0, rest)
  BY DEF Sums
<1> QED
  BY <1>1 DEF Total

\* Nothing is no bytes.
LEMMA TotalEnds ==
  ASSUME NEW n, Total(<<>>, n) PROVE n = 0
BY DEF Total, Sums

\* The bytes of a field that is sent are added.
LEMMA TotalGrows ==
  ASSUME NEW s \in Seq(Fields), NEW n \in Nat, Total(s, n), NEW f \in Fields
  PROVE  Total(Append(s, f), n + f.len)
<1> DEFINE k == Len(s) + 1
           t == Append(s, f)
           l == f.len
<1>1. PICK rest : Sums(s, n, rest)
  BY DEF Total
<1> DEFINE on == [i \in 1..k + 1 |-> IF i = k + 1 THEN 0 ELSE rest[i] + l]
<1>2. /\ Len(t) = k /\ k \in Nat \ {0} /\ Len(s) \in Nat
      /\ \A i \in 1..Len(s) : t[i] = s[i]
      /\ t[k] = f
  BY Prolonged
<1>3. l \in Nat /\ \A i \in 1..Len(s) : s[i].len \in Nat
  BY FieldLengths
<1> HIDE DEF t, l
<1>4. \A i \in 1..k : rest[i] \in Nat
  BY <1>1, <1>2 DEF Sums
<1>5. on \in [1..k + 1 -> Nat] /\ on[1] = n + l /\ on[k + 1] = 0
  BY <1>1, <1>2, <1>3, <1>4 DEF Sums
<1>6. ASSUME NEW i \in 1..k PROVE on[i] = t[i].len + on[i + 1]
  <2>1. CASE i = k
    <3>1. rest[k] = 0 /\ on[k] = rest[k] + l /\ on[k + 1] = 0 /\ t[k].len = l
      BY <1>1, <1>2 DEF Sums, l
    <3> QED
      BY <1>3, <2>1, <3>1
  <2>2. CASE i # k
    <3>1. i \in 1..Len(s) /\ t[i] = s[i] /\ i + 1 \in 1..k
      BY <1>2, <2>2
    <3>2. on[i] = rest[i] + l /\ on[i + 1] = rest[i + 1] + l
      BY <1>2, <2>2, <3>1
    <3>3. rest[i] = s[i].len + rest[i + 1]
      BY <1>1, <3>1 DEF Sums
    <3>4. s[i].len \in Nat /\ rest[i + 1] \in Nat
      BY <1>3, <1>4, <3>1
    <3> QED
      BY <1>3, <3>1, <3>2, <3>3, <3>4
  <2> QED
    BY <2>1, <2>2
<1>7. Sums(t, n + l, on)
  BY <1>2, <1>5, <1>6 DEF Sums
<1> QED
  BY <1>7 DEF Total, t, l

\* Those of one that is taken are not.
LEMMA TotalShrinks ==
  ASSUME NEW s \in Seq(Fields), NEW n \in Nat, Total(s, n), s # <<>>
  PROVE  /\ Head(s).len \in Nat /\ Head(s).len <= n
         /\ Total(Tail(s), n - Head(s).len)
<1>1. PICK rest : Sums(s, n, rest)
  BY DEF Total
<1>2. /\ Len(s) \in Nat \ {0} /\ Len(Tail(s)) = Len(s) - 1 /\ Head(s) = s[1]
      /\ \A i \in 1..Len(s) - 1 : Tail(s)[i] = s[i + 1]
  BY Beheaded
<1> DEFINE on == [i \in 1..Len(s) |-> rest[i + 1]]
<1>3. s[1].len \in Nat /\ rest[2] \in Nat /\ n = s[1].len + rest[2]
  <2>1. 1 \in 1..Len(s) /\ 1 + 1 = 2 /\ 2 \in 1..Len(s) + 1
    BY <1>2
  <2> QED
    BY <1>1, <2>1, FieldLengths DEF Sums
<1>4. on \in [1..Len(s) -> Nat] /\ on[1] = rest[2] /\ on[Len(s)] = 0
  BY <1>1, <1>2 DEF Sums
<1>5. ASSUME NEW i \in 1..Len(s) - 1 PROVE on[i] = Tail(s)[i].len + on[i + 1]
  <2>1. /\ i + 1 \in 1..Len(s) /\ on[i] = rest[i + 1] /\ on[i + 1] = rest[(i + 1) + 1]
        /\ Tail(s)[i] = s[i + 1]
    BY <1>2
  <2> QED
    BY <1>1, <2>1 DEF Sums
<1>6. Sums(Tail(s), rest[2], on)
  <2>1. Len(Tail(s)) + 1 = Len(s) /\ 1..Len(Tail(s)) = 1..Len(s) - 1
    BY <1>2
  <2> HIDE DEF on
  <2> QED
    BY <1>4, <1>5, <2>1 DEF Sums
<1>7. n - Head(s).len = rest[2] /\ Head(s).len \in Nat /\ Head(s).len <= n
  BY <1>2, <1>3
<1> QED
  BY <1>6, <1>7 DEF Total

-----------------------------------------------------------------------------
(* What is behind a field.                                                 *)

\* A place and what it is made of.
LEMMA PlaceFields ==
  ASSUME NEW h, NEW n, NEW a, NEW r
  PROVE  LET p == Place(h, n, a, r) IN
         /\ p.h = h /\ p.n = n /\ p.a = a /\ p.r = r
         /\ h \in Handlers /\ n \in Nat /\ a \in Args /\ r \in Nat => p \in Places
BY DEF Place, Places

\* The types of what it is made of.
LEMMA PlaceTypes ==
  \A p \in Places : p.h \in Handlers /\ p.n \in Nat /\ p.a \in Args /\ p.r \in Nat
BY DEF Places

\* Handlers of the session are handlers.
LEMMA ReadingHandlers == Reading \subseteq Handlers /\ "_handleInitial" \notin Reading
BY DEF Reading, Handlers, SessionHandlers, MessageHandlers, RectangleHandlers

\* Between two messages or two rectangles is a place.
LEMMA BetweenPlace ==
  ASSUME NEW r \in Nat
  PROVE  /\ Between(r) \in Places
         /\ r # 0 => Between(r) = Place("_handleRectangle", 12, NoArgs, r)
         /\ Between(0) = Place("_handleConnection", 1, NoArgs, 0)
<1>1. {"_handleRectangle", "_handleConnection"} \subseteq Handlers
  BY DEF Handlers, SessionHandlers, MessageHandlers, RectangleHandlers
<1>2. NoArgs \in Args
  BY NoArgsOK
<1>3. Place("_handleRectangle", 12, NoArgs, r) \in Places
  BY <1>1, <1>2, PlaceFields
<1>4. Place("_handleConnection", 1, NoArgs, 0) \in Places
  BY <1>1, <1>2, PlaceFields
<1> QED
  BY <1>3, <1>4 DEF Between

\* Records of Args and what is set in them.
LEMMA ArgsTypes ==
  ASSUME NEW a \in Args
  PROVE  /\ a.w \in Nat /\ a.tiles \in Nat /\ a.bg \in BOOLEAN /\ a.fg \in BOOLEAN
         /\ a.sub \in {"none", "fg", "coloured"}
BY DEF Args

\* What is set in Args is in them, and the rest stays.
LEMMA ArgsFields ==
  ASSUME NEW a \in Args
  PROVE  /\ \A t \in Nat : LET b == [a EXCEPT !.tiles = t, !.sub = "none"] IN
              b \in Args /\ b.w = a.w /\ b.tiles = t
         /\ \A t \in Nat : LET b == [a EXCEPT !.tiles = t] IN
              b \in Args /\ b.w = a.w /\ b.tiles = t
         /\ LET b == [a EXCEPT !.fg = TRUE] IN b \in Args /\ b.w = a.w /\ b.tiles = a.tiles
         /\ \A bg, fg \in BOOLEAN, sub \in {"none", "fg", "coloured"} :
              LET b == [a EXCEPT !.bg = bg, !.fg = fg, !.sub = sub] IN
              /\ b \in Args /\ b.w = a.w /\ b.tiles = a.tiles
              /\ b.bg = bg /\ b.fg = fg /\ b.sub = sub
BY DEF Args

\* The width of a rectangle stays in them.
LEMMA ArgsWidth ==
  ASSUME NEW a \in Args
  PROVE  /\ \A t \in Nat : [a EXCEPT !.tiles = t, !.sub = "none"].w = a.w
         /\ \A t \in Nat : [a EXCEPT !.tiles = t].w = a.w
         /\ \A bg, fg \in BOOLEAN, sub \in {"none", "fg", "coloured"} :
              [a EXCEPT !.bg = bg, !.fg = fg, !.sub = sub].w = a.w
BY DEF Args

\* Behind a tile is a place.
LEMMA BehindTilePlace ==
  ASSUME NEW a \in Args, a.tiles # 0, NEW r \in Nat
  PROVE  BehindTile(a, r) \in Places
<1>1. CASE a.tiles = 1
  BY <1>1, BetweenPlace DEF BehindTile
<1>2. CASE a.tiles # 1
  <2> DEFINE b == [a EXCEPT !.tiles = a.tiles - 1, !.sub = "none"]
  <2>1. a.tiles - 1 \in Nat
    BY ArgsTypes
  <2>2. b \in Args
    BY <2>1, ArgsFields
  <2> HIDE DEF b
  <2>3. "_handleDecodeHextile" \in Handlers
    BY DEF Handlers, SessionHandlers, RectangleHandlers
  <2>4. Place("_handleDecodeHextile", 1, b, r) \in Places
    BY <2>2, <2>3, PlaceFields
  <2> QED
    BY <1>2, <2>4 DEF BehindTile, b
<1> QED
  BY <1>1, <1>2

\* The step from a place, by its handler.
LEMMA Behinds ==
  ASSUME NEW p, NEW v
  PROVE  /\ p.h = "_handleConnection" => Behind(p, v) = BehindType(v)
         /\ p.h = "_handleColourMapEntries" =>
              Behind(p, v) = Place("_handleColourMapEntriesValue", 6 * v, NoArgs, 0)
         /\ p.h = "_handleServerCutText" =>
              Behind(p, v) = Place("_handleServerCutTextValue", v, NoArgs, 0)
         /\ p.h \in {"_handleColourMapEntriesValue", "_handleServerCutTextValue"} =>
              Behind(p, v) = Between(0)
         /\ p.h = "_handleFramebufferUpdate" => Behind(p, v) = Between(v)
         /\ p.h = "_handleRectangle" => Behind(p, v) = BehindHeader(v, p.r - 1)
         /\ p.h = "_handleDecodeRRE" =>
              Behind(p, v) =
                IF v # 0 THEN Place("_handleRRESubRectangles", (8 + Bypp) * v, NoArgs, p.r)
                         ELSE Between(p.r)
         /\ p.h = "_handleDecodeZRLE" =>
              Behind(p, v) = Place("_handleDecodeZRLEdata", v, NoArgs, p.r)
         /\ p.h = "_handleDecodeHextile" => Behind(p, v) = BehindMask(p, v)
         /\ p.h = "_handleDecodeHextileSubrect" => Behind(p, v) = BehindColours(p, v)
         /\ p.h \in {"_handleDecodeHextileRAW", "_handleDecodeHextileSubrectsFG"} =>
              Behind(p, v) = BehindTile(p.a, p.r)
         /\ p.h = "_handleDecodeHextileSubrectsColoured" =>
              Behind(p, v) = BehindTile([p.a EXCEPT !.fg = TRUE], p.r)
         /\ p.h \in {"_pumpPixels", "_pumpForClient", "_handleRRESubRectangles",
                     "_handleDecodeZRLEdata", "_handleDecodePsuedoCursor"} =>
              Behind(p, v) = Between(p.r)
BY DEF Behind

\* The step over a header, by its encoding.
LEMMA BehindHeaders ==
  ASSUME NEW v, NEW r
  PROVE  /\ v.encoding = "raw" =>
              BehindHeader(v, r) = Place("_pumpPixels", v.w * Bypp, Of(v.w), r)
         /\ v.encoding = "copyRect" => BehindHeader(v, r) = Place("_pumpForClient", 4, NoArgs, r)
         /\ v.encoding = "rre" =>
              BehindHeader(v, r) = Place("_handleDecodeRRE", 4 + Bypp, Of(v.w), r)
         /\ v.encoding = "zrle" => BehindHeader(v, r) = Place("_handleDecodeZRLE", 4, NoArgs, r)
         /\ v.encoding = "cursor" =>
              BehindHeader(v, r) =
                Place("_handleDecodePsuedoCursor", v.w * Bypp + ((v.w + 7) \div 8), Of(v.w), r)
         /\ v.encoding = "hextile" =>
              BehindHeader(v, r) =
                Place("_handleDecodeHextile", 1, [Of(v.w) EXCEPT !.tiles = v.tiles], r)
         /\ v.encoding = "lastRect" => BehindHeader(v, r) = Between(0)
         /\ v.encoding \in {"desktopSize", "qemuKey"} => BehindHeader(v, r) = Between(r)
BY DEF BehindHeader

\* A header's step leads to a place.
LEMMA BehindHeaderPlace ==
  ASSUME NEW u, NEW v, HeaderFits(u, v), NEW r \in Nat
  PROVE  BehindHeader(v, r) \in Places
<1>1. v.encoding \in Known /\ v.w \in Nat /\ v.tiles \in Nat
  BY DEF HeaderFits, Headers
<1>2. {"_pumpPixels", "_pumpForClient", "_handleDecodeRRE", "_handleDecodeZRLE",
       "_handleDecodePsuedoCursor", "_handleDecodeHextile"} \subseteq Handlers
  BY DEF Handlers, SessionHandlers, RectangleHandlers
<1>3. NoArgs \in Args /\ Of(v.w) \in Args /\ [Of(v.w) EXCEPT !.tiles = v.tiles] \in Args
  BY <1>1, NoArgsOK, ArgsFields
<1>4. v.w * Bypp \in Nat /\ 4 + Bypp \in Nat /\ v.w * Bypp + ((v.w + 7) \div 8) \in Nat
  BY <1>1, SizesOK
<1>5. CASE v.encoding \in {"raw", "copyRect", "rre"}
  BY <1>2, <1>3, <1>4, <1>5, BehindHeaders, PlaceFields
<1>6. CASE v.encoding \in {"zrle", "cursor", "hextile"}
  BY <1>2, <1>3, <1>4, <1>6, BehindHeaders, PlaceFields
<1>7. CASE v.encoding \in {"lastRect", "desktopSize", "qemuKey"}
  BY <1>7, BehindHeaders, BetweenPlace
<1> QED
  BY <1>1, <1>5, <1>6, <1>7 DEF Known

\* What a mask is made of.
LEMMA MaskFields ==
  ASSUME NEW v \in Masks
  PROVE  /\ v[1] \in BOOLEAN /\ v[2] \in BOOLEAN /\ v[3] \in BOOLEAN
         /\ v[4] \in {"none", "fg", "coloured"} /\ (v[1] \/ v[2])
<1>1. CASE v = <<TRUE, FALSE, FALSE, "none">>
  BY <1>1
<1>2. CASE v = <<FALSE, TRUE, FALSE, "none">>
  BY <1>2
<1>3. CASE v = <<FALSE, TRUE, TRUE, "none">>
  BY <1>3
<1>4. CASE v = <<FALSE, TRUE, TRUE, "fg">>
  BY <1>4
<1>5. CASE v = <<FALSE, TRUE, FALSE, "coloured">>
  BY <1>5
<1> QED
  BY <1>1, <1>2, <1>3, <1>4, <1>5 DEF Masks

\* Every field that fits leads to a place.
LEMMA BehindPlace ==
  ASSUME NEW u, NEW p \in Places, NEW f, Fits(u, p, f)
  PROVE  Behind(p, f.value) \in Places
<1> DEFINE v == f.value
<1>1. p.h \in Reading /\ p.n \in Nat /\ p.a \in Args /\ p.r \in Nat
  BY PlaceTypes DEF Fits
<1>2. ValueFits(u, p, v)
  BY DEF Fits
<1> HIDE DEF v
<1>3. NoArgs \in Args
  BY NoArgsOK
<1>4. Reading \subseteq Handlers
  BY ReadingHandlers
<1>5. CASE p.h = "_handleConnection"
  <2>1. v \in Announced
    BY <1>2, <1>5 DEF ValueFits
  <2>2. {"_handleFramebufferUpdate", "_handleColourMapEntries", "_handleServerCutText"} \subseteq Handlers
    BY DEF Handlers, SessionHandlers, MessageHandlers
  <2>3. BehindType(v) \in Places
    BY <1>3, <2>1, <2>2, PlaceFields, BetweenPlace DEF BehindType, Announced
  <2> QED
    BY <1>5, <2>3, Behinds DEF v
<1>6. CASE p.h \in {"_handleColourMapEntries", "_handleServerCutText", "_handleDecodeZRLE",
                    "_handleDecodeRRE"}
  <2>1. v \in Nat
    BY <1>2, <1>6 DEF ValueFits
  <2>2. {"_handleColourMapEntriesValue", "_handleServerCutTextValue", "_handleDecodeZRLEdata",
         "_handleRRESubRectangles"} \subseteq Handlers
    BY DEF Handlers, SessionHandlers, MessageHandlers, RectangleHandlers
  <2>3. 6 * v \in Nat /\ (8 + Bypp) * v \in Nat
    BY <2>1, SizesOK
  <2>4. /\ Place("_handleColourMapEntriesValue", 6 * v, NoArgs, 0) \in Places
        /\ Place("_handleServerCutTextValue", v, NoArgs, 0) \in Places
        /\ Place("_handleDecodeZRLEdata", v, NoArgs, p.r) \in Places
        /\ Place("_handleRRESubRectangles", (8 + Bypp) * v, NoArgs, p.r) \in Places
    BY <1>1, <1>3, <2>1, <2>2, <2>3, PlaceFields
  <2> QED
    BY <1>1, <1>6, <2>4, Behinds, BetweenPlace DEF v
<1>7. CASE p.h \in {"_handleColourMapEntriesValue", "_handleServerCutTextValue", "_pumpPixels",
                    "_pumpForClient", "_handleRRESubRectangles", "_handleDecodeZRLEdata",
                    "_handleDecodePsuedoCursor"}
  BY <1>1, <1>7, Behinds, BetweenPlace
<1>8. CASE p.h = "_handleFramebufferUpdate"
  <2>1. v \in Nat
    BY <1>2, <1>8 DEF ValueFits
  <2> QED
    BY <1>8, <2>1, Behinds, BetweenPlace DEF v
<1>9. CASE p.h = "_handleRectangle"
  <2>1. HeaderFits(u, v) /\ p.r - 1 \in Nat
    BY <1>1, <1>2, <1>9 DEF ValueFits
  <2> QED
    BY <1>9, <2>1, Behinds, BehindHeaderPlace DEF v
<1>10. CASE p.h = "_handleDecodeHextile"
  <2>1. v \in Masks
    BY <1>2, <1>10 DEF ValueFits
  <2>2. {"_handleDecodeHextileRAW", "_handleDecodeHextileSubrect"} \subseteq Handlers
    BY DEF Handlers, SessionHandlers, RectangleHandlers
  <2> DEFINE n == (IF v[2] THEN Bypp ELSE 0) + (IF v[3] THEN Bypp ELSE 0)
                    + (IF v[4] # "none" THEN 1 ELSE 0)
             a == [p.a EXCEPT !.bg = p.a.bg \/ v[2], !.fg = p.a.fg \/ v[3], !.sub = v[4]]
  <2>3. n \in Nat /\ p.a.w * Bypp \in Nat
    <3>1. p.a.w \in Nat /\ Bypp \in Nat
      BY <1>1, ArgsTypes, SizeAssumption
    <3> QED
      BY <3>1, SizesOK
  <2>4. a \in Args
    <3>1. (p.a.bg \/ v[2]) \in BOOLEAN /\ (p.a.fg \/ v[3]) \in BOOLEAN
      OBVIOUS
    <3>2. v[4] \in {"none", "fg", "coloured"}
      BY <2>1, MaskFields
    <3>3. \A bg, fg \in BOOLEAN, sub \in {"none", "fg", "coloured"} :
            [p.a EXCEPT !.bg = bg, !.fg = fg, !.sub = sub] \in Args
      BY <1>1 DEF Args
    <3> QED
      BY <3>1, <3>2, <3>3, Zenon
  <2> HIDE DEF n, a
  <2>5. /\ Place("_handleDecodeHextileSubrect", n, a, p.r) \in Places
        /\ Place("_handleDecodeHextileRAW", p.a.w * Bypp, p.a, p.r) \in Places
    BY <1>1, <2>2, <2>3, <2>4, PlaceFields
  <2>6. BehindMask(p, v) \in Places
    BY <2>5 DEF BehindMask, n, a
  <2> QED
    BY <1>10, <2>6, Behinds DEF v
<1>11. CASE p.h \in HextileHandlers \ {"_handleDecodeHextile"}
  <2>1. p.a.tiles # 0
    BY <1>2, <1>11 DEF ValueFits
  <2>2. BehindTile(p.a, p.r) \in Places /\ BehindTile([p.a EXCEPT !.fg = TRUE], p.r) \in Places
    <3> DEFINE b == [p.a EXCEPT !.fg = TRUE]
    <3>1. b \in Args /\ b.tiles = p.a.tiles
      BY <1>1, ArgsFields
    <3> HIDE DEF b
    <3>2. BehindTile(b, p.r) \in Places
      BY <1>1, <2>1, <3>1, BehindTilePlace
    <3> QED
      BY <1>1, <2>1, <3>2, BehindTilePlace DEF b
  <2>3. CASE p.h = "_handleDecodeHextileSubrect"
    <3>1. v \in Nat
      BY <1>2, <2>3 DEF ValueFits
    <3>2. {"_handleDecodeHextileSubrectsColoured", "_handleDecodeHextileSubrectsFG"} \subseteq Handlers
      BY DEF Handlers, SessionHandlers, RectangleHandlers
    <3>3. (Bypp + 2) * v \in Nat /\ 2 * v \in Nat
      BY <3>1, SizesOK
    <3>4. /\ Place("_handleDecodeHextileSubrectsColoured", (Bypp + 2) * v, p.a, p.r) \in Places
          /\ Place("_handleDecodeHextileSubrectsFG", 2 * v, p.a, p.r) \in Places
      BY <1>1, <3>2, <3>3, PlaceFields
    <3>5. BehindColours(p, v) \in Places
      BY <2>2, <3>4 DEF BehindColours
    <3> QED
      BY <2>3, <3>5, Behinds DEF v
  <2>4. CASE p.h # "_handleDecodeHextileSubrect"
    BY <1>11, <2>2, <2>4, Behinds DEF HextileHandlers
  <2> QED
    BY <2>3, <2>4
<1> QED
  BY <1>1, <1>5, <1>6, <1>7, <1>8, <1>9, <1>10, <1>11
     DEF v, Reading, SessionHandlers, MessageHandlers, RectangleHandlers, HextileHandlers

-----------------------------------------------------------------------------
(* The handler that is called.                                             *)

\* Each action of the client is a call of its own handler: in the startup,
LEMMA StartupRuns ==
  ASSUME NEW v
  PROVE  /\ Greeting(v) => Running("_handleInitial")
         /\ NumberSecurityTypes(v) => Running("_handleNumberSecurityTypes")
         /\ SecurityTypes(v) => Running("_handleSecurityTypes")
         /\ Auth(v) => Running("_handleAuth")
         /\ ConnFailed(v) => Running("_handleConnFailed")
         /\ ConnMessage => Running("_handleConnMessage")
         /\ VNCAuth => Running("_handleVNCAuth")
         /\ DHAuth(v) => Running("_handleDHAuth")
         /\ DHAuthKey => Running("_handleDHAuthKey")
         /\ DHAuthCert => Running("_handleDHAuthCert")
         /\ VNCAuthResult(v) => Running("_handleVNCAuthResult")
         /\ AuthFailed(v) => Running("_handleAuthFailed")
         /\ AuthFailedMessage => Running("_handleAuthFailedMessage")
         /\ ServerName => Running("_handleServerName")
BY DEF Greeting, NumberSecurityTypes, SecurityTypes, Auth, ConnFailed,
       ConnMessage, VNCAuth, DHAuth, DHAuthKey, DHAuthCert, VNCAuthResult,
       AuthFailed, AuthFailedMessage, ServerName

\* and in the session.
LEMMA SessionRuns ==
  ASSUME NEW v
  PROVE  /\ Connection(v) => Running("_handleConnection")
         /\ ColourMapEntries(v) => Running("_handleColourMapEntries")
         /\ ServerCutText(v) => Running("_handleServerCutText")
         /\ MessageValue => Running("_handleColourMapEntriesValue") \/ Running("_handleServerCutTextValue")
         /\ FramebufferUpdate(v) => Running("_handleFramebufferUpdate")
         /\ PumpPixels => Running("_pumpPixels")
         /\ PumpForClient => Running("_pumpForClient")
         /\ DecodePsuedoCursor => Running("_handleDecodePsuedoCursor")
         /\ DecodeRRE(v) => Running("_handleDecodeRRE")
         /\ RRESubRectangles(TRUE) => Running("_handleRRESubRectangles")
         /\ DecodeZRLE(v) => Running("_handleDecodeZRLE")
         /\ DecodeZRLEdata(TRUE) => Running("_handleDecodeZRLEdata")
         /\ DecodeHextile(v[1], v[2], v[3], v[4]) => Running("_handleDecodeHextile")
         /\ DecodeHextileSubrect(v) => Running("_handleDecodeHextileSubrect")
         /\ DecodeHextileRAW => Running("_handleDecodeHextileRAW")
         /\ DecodeHextileSubrectsColoured => Running("_handleDecodeHextileSubrectsColoured")
         /\ DecodeHextileSubrectsFG => Running("_handleDecodeHextileSubrectsFG")
BY DEF Connection, ColourMapEntries, ServerCutText, MessageValue,
       FramebufferUpdate, PumpPixels, PumpForClient, DecodePsuedoCursor,
       DecodeRRE, RRESubRectangles, DecodeZRLE, DecodeZRLEdata, DecodeHextile,
       DecodeHextileSubrect, DecodeHextileRAW, DecodeHextileSubrectsColoured,
       DecodeHextileSubrectsFG

\* So the parked handler determines what Handle does: in the startup,
LEMMA StartupDispatch ==
  ASSUME NEW v, Handle(v)
  PROVE  /\ pumping
         /\ expectedHandler = "_handleInitial" => Greeting(v)
         /\ expectedHandler = "_handleNumberSecurityTypes" => NumberSecurityTypes(v)
         /\ expectedHandler = "_handleSecurityTypes" => SecurityTypes(v)
         /\ expectedHandler = "_handleAuth" => Auth(v)
         /\ expectedHandler = "_handleConnFailed" => ConnFailed(v)
         /\ expectedHandler = "_handleConnMessage" => ConnMessage
         /\ expectedHandler = "_handleVNCAuth" => VNCAuth
         /\ expectedHandler = "_handleDHAuth" => DHAuth(v)
         /\ expectedHandler = "_handleDHAuthKey" => DHAuthKey
         /\ expectedHandler = "_handleDHAuthCert" => DHAuthCert /\ transport' # "closed"
         /\ expectedHandler = "_handleVNCAuthResult" => VNCAuthResult(v)
         /\ expectedHandler = "_handleAuthFailed" => AuthFailed(v)
         /\ expectedHandler = "_handleAuthFailedMessage" => AuthFailedMessage
         /\ expectedHandler = "_handleServerName" => ServerName
         /\ expectedHandler = "_handleServerInit" => ServerInit(v[1], v[2])
<1>1. ServerInit(v[1], v[2]) => Running("_handleServerInit")
  BY DEF ServerInit
<1> QED
  BY <1>1, StartupRuns, SessionRuns DEF Handle, Running

\* and in the session.
LEMMA SessionDispatch ==
  ASSUME NEW v, Handle(v)
  PROVE  /\ pumping
         /\ expectedHandler = "_handleConnection" => Connection(v)
         /\ expectedHandler = "_handleColourMapEntries" => ColourMapEntries(v)
         /\ expectedHandler = "_handleServerCutText" => ServerCutText(v)
         /\ expectedHandler \in {"_handleColourMapEntriesValue", "_handleServerCutTextValue"} => MessageValue
         /\ expectedHandler = "_handleFramebufferUpdate" => FramebufferUpdate(v)
         /\ expectedHandler = "_pumpPixels" => PumpPixels
         /\ expectedHandler = "_pumpForClient" => PumpForClient
         /\ expectedHandler = "_handleDecodePsuedoCursor" => DecodePsuedoCursor
         /\ expectedHandler = "_handleDecodeRRE" => DecodeRRE(v)
         /\ expectedHandler = "_handleRRESubRectangles" => RRESubRectangles(TRUE)
         /\ expectedHandler = "_handleDecodeZRLE" => DecodeZRLE(v)
         /\ expectedHandler = "_handleDecodeZRLEdata" => DecodeZRLEdata(TRUE) /\ transport' # "closed"
         /\ expectedHandler = "_handleDecodeHextile" => DecodeHextile(v[1], v[2], v[3], v[4])
         /\ expectedHandler = "_handleDecodeHextileSubrect" => DecodeHextileSubrect(v)
         /\ expectedHandler = "_handleDecodeHextileRAW" => DecodeHextileRAW
         /\ expectedHandler = "_handleDecodeHextileSubrectsColoured" => DecodeHextileSubrectsColoured
         /\ expectedHandler = "_handleDecodeHextileSubrectsFG" => DecodeHextileSubrectsFG
<1>1. ServerInit(v[1], v[2]) => Running("_handleServerInit")
  BY DEF ServerInit
<1> QED
  BY <1>1, StartupRuns, SessionRuns DEF Handle, Running

-----------------------------------------------------------------------------
(* A handler call in the session.                                          *)

\* The client moves to q.
Moves(q) == Expect(q.h, q.n, q.a) /\ rectangles' = q.r /\ Steady

\* It completes a refresh only at the end of an update.
Refreshes(q) ==
  IF expectedHandler \in RectangleHandlers /\ q.h = "_handleConnection"
    THEN CommitUpdate(rectanglePos', painted') ELSE UNCHANGED refresh

\* What was painted stays accounted for.
KeepsPaint ==
  /\ rectanglePos' \in Nat /\ painted' \in BOOLEAN
  /\ uses \cap {"cursor", "copyRect"} = {} /\ Paints => Paints'

Onward == Behind(Here, Head(stream).value)

\* An update that was begun is finished.
StaysInUpdate ==
  \/ Onward.h \in RectangleHandlers
  \/ expectedHandler \in RectangleHandlers /\ Onward.h = "_handleConnection"
  \/ expectedHandler \in MessageHandlers \ {"_handleFramebufferUpdate"}

\* The handler took the field and waits for the next one,
Advances == Moves(Onward) /\ Refreshes(Onward) /\ KeepsPaint /\ StaysInUpdate

\* or it raised, had no memory, or no room for a desktop that has grown.
Fails ==
  /\ Raise \/ ((MemoryErrors \/ grown) /\ AbortConnection)
  /\ rectangles' \in Nat /\ rectanglePos' \in Nat /\ painted' \in BOOLEAN

\* A Raw rectangle fits the size in ServerInit unless the desktop outgrew it.
HeadFits ==
  LET v == Head(stream).value
  IN  expectedHandler = "_handleRectangle" /\ v.encoding = "raw" /\ ~grown => v.w <= width

\* The handler is called on a field that it waits for.
Ready == SessionTypes /\ pumping /\ Fits(uses, Here, Head(stream))

\* Where the client is.
LEMMA HereFields ==
  /\ Here.h = expectedHandler /\ Here.n = expectedLen /\ Here.a = args /\ Here.r = rectangles
BY PlaceFields DEF Here

\* What the place between two is made of.
LEMMA BetweenFields ==
  ASSUME NEW r \in Nat
  PROVE  /\ Between(r).a = NoArgs /\ Between(r).r = r
         /\ Between(r).h = IF r # 0 THEN "_handleRectangle" ELSE "_handleConnection"
         /\ Between(r).n = IF r # 0 THEN 12 ELSE 1
BY PlaceFields DEF Between

\* _doConnection moves the client to the next rectangle, or to the next message.
LEMMA DoConnectionMoves ==
  ASSUME NEW n \in Nat, NEW pos, NEW paint, DoConnection(n, pos, paint), Steady
  PROVE  /\ Moves(Between(n)) /\ rectanglePos' = pos /\ painted' = paint
         /\ expectedHandler' = Between(n).h
         /\ IF Between(n).h = "_handleConnection" THEN CommitUpdate(rectanglePos', painted')
                                                  ELSE UNCHANGED refresh
<1>1. CASE n # 0
  BY <1>1, BetweenFields DEF DoConnection, Moves, Expect
<1>2. CASE n = 0
  BY <1>2, BetweenFields DEF DoConnection, Moves, Expect
<1> QED
  BY <1>1, <1>2

\* Messages.
LEMMA MessageMoves ==
  ASSUME Ready, expectedHandler \in MessageHandlers, Handle(Head(stream).value)
  PROVE  Advances
<1> DEFINE v == Head(stream).value
<1>1. ValueFits(uses, Here, v) /\ rectangles = 0
  BY HereFields DEF Ready, Fits, ValueFits
<1>2. rectanglePos \in Nat /\ painted \in BOOLEAN /\ rectangles \in Nat
  BY DEF Ready, SessionTypes, ClientTypes
<1>3. Onward = Behind(Here, v) /\ Handle(v)
  BY DEF Onward
<1> HIDE DEF v
<1>4. expectedHandler \notin RectangleHandlers /\ expectedHandler \notin HextileHandlers
  BY DEF MessageHandlers, RectangleHandlers, HextileHandlers
<1>5. ASSUME NEW h \in MessageHandlers, NEW n, Onward = Place(h, n, NoArgs, 0), Message(h, n),
             expectedHandler # "_handleFramebufferUpdate"
      PROVE  Advances
  <2>1. Onward.h = h /\ Onward.n = n /\ Onward.a = NoArgs /\ Onward.r = 0
    BY <1>5, PlaceFields
  <2>2. Moves(Onward) /\ Refreshes(Onward) /\ UNCHANGED <<rectanglePos, painted>> /\ expectedHandler' = h
    BY <1>1, <1>4, <1>5, <2>1 DEF Message, Moves, Refreshes, update, Expect
  <2>3. KeepsPaint
    <3>1. h \notin RectangleHandlers /\ h \notin HextileHandlers
      BY DEF MessageHandlers, RectangleHandlers, HextileHandlers
    <3>2. Paints' <=> (rectanglePos' # 0 => painted')
      BY <2>2, <3>1 DEF Paints, RectangleHandlers
    <3>3. Paints <=> (rectanglePos # 0 => painted)
      BY <1>4 DEF Paints, RectangleHandlers
    <3> QED
      BY <1>2, <2>2, <3>2, <3>3 DEF KeepsPaint
  <2> QED
    BY <1>5, <2>2, <2>3 DEF Advances, StaysInUpdate
<1>6. CASE expectedHandler = "_handleConnection"
  <2>1. v \in Announced /\ Connection(v) /\ Onward = BehindType(v)
    <3>1. v \in Announced
      BY <1>1, <1>6, HereFields DEF ValueFits
    <3> QED
      BY <1>3, <1>6, <3>1, HereFields, Behinds, SessionDispatch
  <2>2. CASE v = "framebufferUpdate"
    <3>1. /\ Message("_handleFramebufferUpdate", 3)
          /\ Onward = Place("_handleFramebufferUpdate", 3, NoArgs, 0)
      BY <2>1, <2>2 DEF Connection, BehindType
    <3> QED
      BY <1>5, <1>6, <3>1 DEF MessageHandlers
  <2>3. CASE v = "setColourMapEntries"
    <3>1. /\ Message("_handleColourMapEntries", 5)
          /\ Onward = Place("_handleColourMapEntries", 5, NoArgs, 0)
      BY <2>1, <2>3 DEF Connection, BehindType
    <3> QED
      BY <1>5, <1>6, <3>1 DEF MessageHandlers
  <2>4. CASE v = "serverCutText"
    <3>1. /\ Message("_handleServerCutText", 7)
          /\ Onward = Place("_handleServerCutText", 7, NoArgs, 0)
      BY <2>1, <2>4 DEF Connection, BehindType
    <3> QED
      BY <1>5, <1>6, <3>1 DEF MessageHandlers
  <2>5. CASE v = "bell"
    <3>1. /\ Message("_handleConnection", 1)
          /\ Onward = Place("_handleConnection", 1, NoArgs, 0)
      BY <2>1, <2>5 DEF Connection, BehindType, Between
    <3> QED
      BY <1>5, <1>6, <3>1 DEF MessageHandlers
  <2> QED
    BY <2>1, <2>2, <2>3, <2>4, <2>5 DEF Announced
<1>7. CASE expectedHandler = "_handleColourMapEntries"
  <2>1. /\ Message("_handleColourMapEntriesValue", 6 * v)
        /\ Onward = Place("_handleColourMapEntriesValue", 6 * v, NoArgs, 0)
    BY <1>3, <1>7, HereFields, Behinds, SessionDispatch DEF ColourMapEntries
  <2> QED
    BY <1>5, <1>7, <2>1 DEF MessageHandlers
<1>8. CASE expectedHandler = "_handleServerCutText"
  <2>1. /\ Message("_handleServerCutTextValue", v)
        /\ Onward = Place("_handleServerCutTextValue", v, NoArgs, 0)
    BY <1>3, <1>8, HereFields, Behinds, SessionDispatch DEF ServerCutText
  <2> QED
    BY <1>5, <1>8, <2>1 DEF MessageHandlers
<1>9. CASE expectedHandler \in {"_handleColourMapEntriesValue", "_handleServerCutTextValue"}
  <2>1. Message("_handleConnection", 1) /\ Onward = Between(0)
    BY <1>3, <1>9, HereFields, Behinds, SessionDispatch DEF MessageValue
  <2>2. Onward = Place("_handleConnection", 1, NoArgs, 0)
    BY <2>1 DEF Between
  <2> QED
    BY <1>5, <1>9, <2>1, <2>2 DEF MessageHandlers
<1>10. CASE expectedHandler = "_handleFramebufferUpdate"
  <2>1. v \in Nat \ {0} /\ FramebufferUpdate(v) /\ Onward = Between(v)
    <3>1. v \in Nat \ {0}
      BY <1>1, <1>10, HereFields DEF ValueFits
    <3> QED
      BY <1>3, <1>10, <3>1, HereFields, Behinds, SessionDispatch
  <2>2. DoConnection(v, 0, FALSE) /\ Steady
    BY <2>1 DEF FramebufferUpdate
  <2>3. /\ Moves(Onward) /\ rectanglePos' = 0 /\ painted' = FALSE
        /\ expectedHandler' = "_handleRectangle" /\ UNCHANGED refresh
    BY <2>1, <2>2, DoConnectionMoves, BetweenFields
  <2>4. Paints'
    BY <2>3 DEF Paints, HextileHandlers
  <2> QED
    BY <1>4, <2>1, <2>3, <2>4, BetweenFields
       DEF Advances, Refreshes, KeepsPaint, StaysInUpdate, RectangleHandlers
<1> QED
  BY <1>6, <1>7, <1>8, <1>9, <1>10 DEF MessageHandlers

\* A header that leaves a decoder parked.
LEMMA CountedMoves ==
  ASSUME Ready, expectedHandler = "_handleRectangle", rectangles # 0,
         NEW h \in RectangleHandlers, NEW n, NEW a, Counted(h, n, a),
         Onward = Place(h, n, a, rectangles - 1),
         uses \cap {"cursor", "copyRect"} = {} =>
           /\ h \in HextileHandlers \cup {"_pumpPixels", "_handleDecodeRRE", "_handleDecodeZRLE"}
           /\ h # "_handleDecodeZRLE" => a.w # 0
  PROVE  Advances
<1>1. Onward.h = h /\ Onward.n = n /\ Onward.a = a /\ Onward.r = rectangles - 1
  BY PlaceFields
<1>2. rectanglePos \in Nat /\ painted \in BOOLEAN /\ rectangles \in Nat
  BY DEF Ready, SessionTypes, ClientTypes
<1>3. h # "_handleConnection"
  BY DEF RectangleHandlers
<1>4. /\ Moves(Onward) /\ UNCHANGED refresh /\ rectanglePos' = rectanglePos + 1
      /\ painted' = painted /\ expectedHandler' = h /\ args' = a
  BY <1>1 DEF Counted, Count, Moves, Expect
<1>5. uses \cap {"cursor", "copyRect"} = {} => Paints'
  <2>1. CASE h = "_handleDecodeZRLE"
    BY <1>4, <2>1 DEF Paints, HextileHandlers
  <2>2. CASE h # "_handleDecodeZRLE"
    BY <1>4, <2>2 DEF Paints
  <2> QED
    BY <2>1, <2>2
<1> QED
  BY <1>1, <1>2, <1>3, <1>4, <1>5 DEF Advances, Refreshes, KeepsPaint, StaysInUpdate

\* A header or a body that ends in _doConnection.
LEMMA DoneMoves ==
  ASSUME Ready, expectedHandler \in RectangleHandlers, NEW n \in Nat, NEW pos \in Nat,
         NEW paint \in BOOLEAN, DoConnection(n, pos, paint), Steady, Onward = Between(n),
         uses \cap {"cursor", "copyRect"} = {} /\ Paints => (pos # 0 => paint)
  PROVE  Advances
<1>1. /\ Moves(Between(n)) /\ rectanglePos' = pos /\ painted' = paint
      /\ expectedHandler' = Between(n).h
      /\ IF Between(n).h = "_handleConnection" THEN CommitUpdate(rectanglePos', painted')
                                               ELSE UNCHANGED refresh
  BY DoConnectionMoves
<1>2. expectedHandler' \in {"_handleRectangle", "_handleConnection"}
  BY <1>1, BetweenFields
<1>3. Paints' <=> (pos # 0 => paint)
  BY <1>1, <1>2 DEF Paints, HextileHandlers
<1> QED
  BY <1>1, <1>2, <1>3 DEF Advances, Refreshes, KeepsPaint, StaysInUpdate,
         RectangleHandlers

\* Rectangle headers.
LEMMA HeaderMoves ==
  ASSUME Ready, HeadFits, expectedHandler = "_handleRectangle", HandleRectangle(Head(stream).value)
  PROVE  Advances \/ Fails
<1> DEFINE v == Head(stream).value
           r == rectangles - 1
<1>1. rectangles # 0 /\ HeaderFits(uses, v)
  BY HereFields DEF Ready, Fits, ValueFits
<1>2. /\ rectanglePos \in Nat /\ painted \in BOOLEAN /\ rectangles \in Nat /\ width \in Nat
      /\ r \in Nat
  BY <1>1 DEF Ready, SessionTypes, ClientTypes
<1>3. Onward = BehindHeader(v, r) /\ HandleRectangle(v)
  BY HereFields, Behinds DEF Onward
<1> HIDE DEF v
<1>4. v.encoding \in Known /\ v.encoding \in uses /\ v.w \in Nat /\ v.tiles \in Nat
  BY <1>1 DEF HeaderFits, Headers
<1>5. expectedHandler \in RectangleHandlers
  BY DEF RectangleHandlers
<1>6. Paints <=> (rectanglePos # 0 => painted)
  BY DEF Paints, HextileHandlers
<1>7. CASE v.encoding = "raw"
  <2>1. RawRectangle(v.w) /\ v.w # 0 /\ (~grown => v.w <= width)
    BY <1>1, <1>3, <1>7 DEF HandleRectangle, HeaderFits, HeadFits, v
  <2>2. CASE Count /\ AbortConnection
    <3>1. MemoryErrors \/ grown
      BY <1>2, <1>4, <2>1, <2>2 DEF RawRectangle, Counted, Expect,
             AbortConnection, Steady, Rectangle,
             Running, LoseConnection, outcome
    <3> QED
      BY <1>2, <2>2, <3>1 DEF Fails, Count
  <2>3. CASE Counted("_pumpPixels", v.w * Bypp, Of(v.w))
    <3>1. Of(v.w).w # 0
      BY <1>4, <2>1, NoArgsOK
    <3>2. "_pumpPixels" \in RectangleHandlers
      BY DEF RectangleHandlers
    <3>3. Onward = Place("_pumpPixels", v.w * Bypp, Of(v.w), rectangles - 1)
      BY <1>3, <1>7, BehindHeaders
    <3> QED
      BY <1>1, <2>3, <3>1, <3>2, <3>3, CountedMoves
  <2> QED
    BY <2>1, <2>2, <2>3 DEF RawRectangle
<1>8. CASE v.encoding = "copyRect"
  <2>1. CopyRectangle
    BY <1>3, <1>8 DEF HandleRectangle
  <2>2. Counted("_pumpForClient", 4, NoArgs) /\ "_pumpForClient" \in RectangleHandlers
    BY <2>1 DEF CopyRectangle, RectangleHandlers
  <2>3. Onward = Place("_pumpForClient", 4, NoArgs, rectangles - 1)
    BY <1>3, <1>8, BehindHeaders
  <2> QED
    BY <1>1, <1>4, <1>8, <2>2, <2>3, CountedMoves
<1>9. CASE v.encoding = "rre"
  <2>1. RRERectangle(v.w) /\ v.w # 0
    BY <1>1, <1>3, <1>9 DEF HandleRectangle, HeaderFits
  <2>2. Counted("_handleDecodeRRE", 4 + Bypp, Of(v.w)) /\ "_handleDecodeRRE" \in RectangleHandlers
    BY <2>1 DEF RRERectangle, RectangleHandlers
  <2>3. Onward = Place("_handleDecodeRRE", 4 + Bypp, Of(v.w), rectangles - 1)
    BY <1>3, <1>9, BehindHeaders
  <2>4. Of(v.w).w # 0
    BY <1>4, <2>1, NoArgsOK
  <2> QED
    BY <1>1, <2>2, <2>3, <2>4, CountedMoves
<1>10. CASE v.encoding = "zrle"
  <2>1. ZRLERectangle
    BY <1>3, <1>10 DEF HandleRectangle
  <2>2. Counted("_handleDecodeZRLE", 4, NoArgs) /\ "_handleDecodeZRLE" \in RectangleHandlers
    BY <2>1 DEF ZRLERectangle, RectangleHandlers
  <2>3. Onward = Place("_handleDecodeZRLE", 4, NoArgs, rectangles - 1)
    BY <1>3, <1>10, BehindHeaders
  <2> QED
    BY <1>1, <2>2, <2>3, CountedMoves
<1>11. CASE v.encoding = "cursor"
  <2>1. CursorRectangle(v.w)
    BY <1>3, <1>11 DEF HandleRectangle
  <2> DEFINE n == v.w * Bypp + ((v.w + 7) \div 8)
  <2>2. /\ Counted("_handleDecodePsuedoCursor", n, Of(v.w))
        /\ "_handleDecodePsuedoCursor" \in RectangleHandlers
    BY <2>1 DEF CursorRectangle, RectangleHandlers
  <2>3. Onward = Place("_handleDecodePsuedoCursor", n, Of(v.w), rectangles - 1)
    BY <1>3, <1>11, BehindHeaders
  <2> HIDE DEF n
  <2> QED
    BY <1>1, <1>4, <1>11, <2>2, <2>3, CountedMoves
<1>12. CASE v.encoding = "hextile"
  <2> DEFINE a == [Of(v.w) EXCEPT !.tiles = v.tiles]
  <2>1. HextileRectangle(v.w, v.tiles) /\ v.w = 1 /\ v.tiles # 0
    BY <1>1, <1>3, <1>12 DEF HandleRectangle, HeaderFits
  <2>2. Counted("_handleDecodeHextile", 1, a) /\ "_handleDecodeHextile" \in RectangleHandlers
    BY <2>1 DEF HextileRectangle, RectangleHandlers
  <2>3. Onward = Place("_handleDecodeHextile", 1, a, rectangles - 1)
    BY <1>3, <1>12, BehindHeaders
  <2>4. a.w # 0
    <3>1. Of(v.w) \in Args /\ Of(v.w).w = v.w
      BY <1>4, NoArgsOK
    <3>2. \A t \in Nat : [Of(v.w) EXCEPT !.tiles = t].w = Of(v.w).w
      BY <3>1, ArgsWidth
    <3> QED
      BY <1>4, <2>1, <3>1, <3>2
  <2> HIDE DEF a
  <2>5. "_handleDecodeHextile" \in HextileHandlers
    BY DEF HextileHandlers
  <2> QED
    BY <1>1, <2>2, <2>3, <2>4, <2>5, CountedMoves
<1>13. CASE v.encoding = "lastRect"
  <2>1. LastRect
    BY <1>3, <1>13 DEF HandleRectangle
  <2>2. DoConnection(0, rectanglePos, painted) /\ Steady
    BY <2>1 DEF LastRect
  <2>3. Onward = Between(0)
    BY <1>3, <1>13, BehindHeaders
  <2> QED
    BY <1>2, <1>5, <1>6, <2>2, <2>3, DoneMoves
<1>14. CASE v.encoding \in {"desktopSize", "qemuKey"}
  <2>1. DesktopSizeOrQEMU
    BY <1>3, <1>14 DEF HandleRectangle
  <2>2. DoConnection(r, rectanglePos, painted) /\ Steady
    BY <2>1 DEF DesktopSizeOrQEMU
  <2>3. Onward = Between(r)
    BY <1>3, <1>14, BehindHeaders
  <2> HIDE DEF r
  <2> QED
    BY <1>2, <1>5, <1>6, <2>2, <2>3, DoneMoves
<1> QED
  BY <1>4, <1>7, <1>8, <1>9, <1>10, <1>11, <1>12, <1>13, <1>14 DEF Known

\* A body that needs more bytes.
LEMMA NeedsMoves ==
  ASSUME Ready, NEW h \in RectangleHandlers, NEW n, NEW a, NEW paint \in BOOLEAN,
         RectangleNeeds(h, n, a, paint), Onward = Place(h, n, a, rectangles),
         uses \cap {"cursor", "copyRect"} = {} /\ Paints =>
           \/ h = "_handleDecodeZRLEdata"
           \/ h = "_handleRRESubRectangles" /\ paint
           \/ h \in HextileHandlers /\ a.w # 0
  PROVE  Advances
<1>1. Onward.h = h /\ Onward.n = n /\ Onward.a = a /\ Onward.r = rectangles
  BY PlaceFields
<1>2. rectanglePos \in Nat /\ painted \in BOOLEAN /\ rectangles \in Nat
  BY DEF Ready, SessionTypes, ClientTypes
<1>3. h # "_handleConnection"
  BY DEF RectangleHandlers
<1>4. /\ Moves(Onward) /\ UNCHANGED refresh /\ rectanglePos' = rectanglePos
      /\ painted' = (painted \/ paint) /\ expectedHandler' = h /\ args' = a
  BY <1>1 DEF RectangleNeeds, Moves, Expect
<1>5. ASSUME uses \cap {"cursor", "copyRect"} = {}, Paints PROVE Paints'
  <2>1. CASE h = "_handleDecodeZRLEdata"
    BY <1>4, <2>1 DEF Paints, HextileHandlers
  <2>2. CASE h = "_handleRRESubRectangles" /\ paint
    BY <1>4, <2>2 DEF Paints, HextileHandlers
  <2>3. CASE h \in HextileHandlers /\ a.w # 0
    BY <1>4, <2>3 DEF Paints
  <2> QED
    BY <1>5, <2>1, <2>2, <2>3
<1> QED
  BY <1>1, <1>2, <1>3, <1>4, <1>5 DEF Advances, Refreshes, KeepsPaint, StaysInUpdate

\* The same within a tile.
LEMMA TileNeedsMoves ==
  ASSUME Ready, NEW h, h \in RectangleHandlers \cap HextileHandlers, NEW n, NEW a,
         NEW paint \in BOOLEAN, a.w = 1,
         RectangleNeeds(h, n, a, paint), Onward = Place(h, n, a, rectangles)
  PROVE  Advances
<1>1. h \in RectangleHandlers /\ h \in HextileHandlers /\ a.w # 0
  OBVIOUS
<1> QED
  BY <1>1, NeedsMoves

\* The end of a tile.
LEMMA TileMoves ==
  ASSUME Ready, expectedHandler \in HextileHandlers, NEW a \in Args, a.tiles # 0, a.w = 1,
         NextHextileTile(a, TRUE), Onward = BehindTile(a, rectangles)
  PROVE  Advances
<1>1. rectanglePos \in Nat /\ painted \in BOOLEAN /\ rectangles \in Nat
  BY DEF Ready, SessionTypes, ClientTypes
<1>2. expectedHandler \in RectangleHandlers
  BY DEF HextileHandlers, RectangleHandlers
<1>3. CASE a.tiles = 1
  <2>1. DoConnection(rectangles, rectanglePos, TRUE) /\ Steady
    <3>1. (painted \/ TRUE) = TRUE
      OBVIOUS
    <3> QED
      BY <1>3, <3>1 DEF NextHextileTile, RectangleDone
  <2>2. Onward = Between(rectangles)
    BY <1>3 DEF BehindTile
  <2> QED
    BY <1>1, <1>2, <2>1, <2>2, DoneMoves
<1>4. CASE a.tiles # 1
  <2> DEFINE b == [a EXCEPT !.tiles = a.tiles - 1, !.sub = "none"]
  <2>1. b.w = 1
    <3>1. a.tiles - 1 \in Nat
      BY ArgsTypes
    <3>2. \A t \in Nat : [a EXCEPT !.tiles = t, !.sub = "none"].w = a.w
      BY ArgsWidth
    <3> QED
      BY <3>1, <3>2
  <2>2. RectangleNeeds("_handleDecodeHextile", 1, b, TRUE)
    BY <1>4 DEF NextHextileTile
  <2>3. Onward = Place("_handleDecodeHextile", 1, b, rectangles)
    BY <1>4 DEF BehindTile
  <2>4. "_handleDecodeHextile" \in RectangleHandlers \cap HextileHandlers
    BY DEF RectangleHandlers, HextileHandlers
  <2> HIDE DEF b
  <2> QED
    BY <2>1, <2>2, <2>3, <2>4, TileNeedsMoves
<1> QED
  BY <1>3, <1>4

\* Bodies of rectangles other than Hextile.
Bodies == {"_pumpPixels", "_pumpForClient", "_handleDecodePsuedoCursor", "_handleDecodeRRE",
           "_handleRRESubRectangles", "_handleDecodeZRLE", "_handleDecodeZRLEdata"}

\* A field of such a body moves the client to the next place of the path.
LEMMA BodyMoves ==
  ASSUME Ready, expectedHandler \in Bodies, Handle(Head(stream).value)
  PROVE  Advances \/ Fails
<1> DEFINE v == Head(stream).value
<1>1. ValueFits(uses, Here, v)
  BY DEF Ready, Fits
<1>2. rectanglePos \in Nat /\ painted \in BOOLEAN /\ rectangles \in Nat /\ args \in Args
  BY DEF Ready, SessionTypes, ClientTypes
<1>3. Onward = Behind(Here, v) /\ Handle(v)
  BY DEF Onward
<1> HIDE DEF v
<1>4. expectedHandler \in RectangleHandlers
  BY DEF Bodies, RectangleHandlers
<1>5. ASSUME NEW paint \in BOOLEAN, RectangleDone(paint), Onward = Between(rectangles),
             uses \cap {"cursor", "copyRect"} = {} /\ Paints =>
               (rectanglePos # 0 => painted \/ paint)
      PROVE  Advances
  <2>1. DoConnection(rectangles, rectanglePos, painted \/ paint) /\ Steady
    BY <1>5 DEF RectangleDone
  <2>2. (painted \/ paint) \in BOOLEAN
    OBVIOUS
  <2> DEFINE both == painted \/ paint
  <2> HIDE DEF both
  <2>3. /\ both \in BOOLEAN /\ DoConnection(rectangles, rectanglePos, both)
        /\ uses \cap {"cursor", "copyRect"} = {} /\ Paints => (rectanglePos # 0 => both)
    BY <1>5, <2>1, <2>2 DEF both
  <2> QED
    BY <1>2, <1>4, <1>5, <2>1, <2>3, DoneMoves
<1>6. CASE expectedHandler = "_pumpPixels"
  <2>1. PumpPixels /\ Onward = Between(rectangles)
    BY <1>3, <1>6, HereFields, Behinds, SessionDispatch
  <2>2. CASE RectangleDone(args.w # 0)
    <3>1. Paints => args.w # 0
      BY <1>6 DEF Paints
    <3>2. (args.w # 0) \in BOOLEAN
      OBVIOUS
    <3> QED
      BY <1>5, <2>1, <2>2, <3>1, <3>2
  <2>3. CASE MemoryErrors /\ AbortConnection /\ UNCHANGED update
    BY <1>2, <2>3 DEF Fails, update
  <2> QED
    BY <2>1, <2>2, <2>3 DEF PumpPixels
<1>7. CASE expectedHandler = "_pumpForClient"
  <2>1. RectangleDone(FALSE) /\ Onward = Between(rectangles)
    BY <1>3, <1>7, HereFields, Behinds, SessionDispatch DEF PumpForClient
  <2>2. ~Paints
    BY <1>7 DEF Paints, HextileHandlers
  <2> QED
    BY <1>5, <2>1, <2>2
<1>8. CASE expectedHandler = "_handleDecodePsuedoCursor"
  <2>1. RectangleDone(FALSE) /\ Onward = Between(rectangles)
    BY <1>3, <1>8, HereFields, Behinds, SessionDispatch DEF DecodePsuedoCursor
  <2>2. ~Paints
    BY <1>8 DEF Paints, HextileHandlers
  <2> QED
    BY <1>5, <2>1, <2>2
<1>9. CASE expectedHandler = "_handleDecodeRRE"
  <2>1. v \in Nat
    BY <1>1, <1>9, HereFields DEF ValueFits
  <2>2. /\ DecodeRRE(v)
        /\ Onward = IF v # 0 THEN Place("_handleRRESubRectangles", (8 + Bypp) * v, NoArgs, rectangles)
                             ELSE Between(rectangles)
    BY <1>3, <1>9, HereFields, Behinds, SessionDispatch
  <2>3. Paints => args.w # 0
    BY <1>9 DEF Paints
  <2>4. (args.w # 0) \in BOOLEAN
    OBVIOUS
  <2>5. CASE v # 0
    <3>1. RectangleNeeds("_handleRRESubRectangles", (8 + Bypp) * v, NoArgs, args.w # 0)
      BY <2>2, <2>5 DEF DecodeRRE
    <3>2. "_handleRRESubRectangles" \in RectangleHandlers
      BY DEF RectangleHandlers
    <3> QED
      BY <2>2, <2>3, <2>4, <2>5, <3>1, <3>2, NeedsMoves
  <2>6. CASE v = 0
    <3>1. RectangleDone(args.w # 0)
      BY <2>2, <2>6 DEF DecodeRRE
    <3> QED
      BY <1>5, <2>2, <2>3, <2>4, <2>6, <3>1
  <2> QED
    BY <2>5, <2>6
<1>10. CASE expectedHandler = "_handleRRESubRectangles"
  <2>1. RectangleDone(TRUE) /\ Onward = Between(rectangles)
    BY <1>3, <1>10, HereFields, Behinds, SessionDispatch DEF RRESubRectangles
  <2> QED
    BY <1>5, <2>1
<1>11. CASE expectedHandler = "_handleDecodeZRLE"
  <2>1. /\ RectangleNeeds("_handleDecodeZRLEdata", v, NoArgs, FALSE)
        /\ Onward = Place("_handleDecodeZRLEdata", v, NoArgs, rectangles)
    BY <1>3, <1>11, HereFields, Behinds, SessionDispatch DEF DecodeZRLE
  <2>2. "_handleDecodeZRLEdata" \in RectangleHandlers
    BY DEF RectangleHandlers
  <2> QED
    BY <2>1, <2>2, NeedsMoves
<1>12. CASE expectedHandler = "_handleDecodeZRLEdata"
  <2>1. DecodeZRLEdata(TRUE) /\ transport' # "closed" /\ Onward = Between(rectangles)
    BY <1>3, <1>12, HereFields, Behinds, SessionDispatch
  <2>2. RectangleDone(TRUE)
    BY <2>1 DEF DecodeZRLEdata, Raise
  <2> QED
    BY <1>5, <2>1, <2>2
<1> QED
  BY <1>6, <1>7, <1>8, <1>9, <1>10, <1>11, <1>12 DEF Bodies

\* The tiles of a Hextile rectangle.
LEMMA HextileMoves ==
  ASSUME Ready, expectedHandler \in HextileHandlers, Handle(Head(stream).value)
  PROVE  Advances \/ Fails
<1> DEFINE v == Head(stream).value
<1>1. ValueFits(uses, Here, v)
  BY DEF Ready, Fits
<1>2. rectanglePos \in Nat /\ painted \in BOOLEAN /\ rectangles \in Nat /\ args \in Args
  BY DEF Ready, SessionTypes, ClientTypes
<1>3. Onward = Behind(Here, v) /\ Handle(v)
  BY DEF Onward
<1> HIDE DEF v
<1>4. args.tiles # 0 /\ args.w = 1
  BY <1>1, HereFields DEF ValueFits
<1>5. ASSUME NEW known, FillsNone(known) PROVE Fails
  BY <1>2, <1>5 DEF FillsNone, Fails, update
<1>6. (args.w # 0) = TRUE
  BY <1>4
<1>7. CASE expectedHandler = "_handleDecodeHextile"
  <2>1. v \in Masks
    BY <1>1, <1>7, HereFields DEF ValueFits
  <2>2. DecodeHextile(v[1], v[2], v[3], v[4]) /\ Onward = BehindMask(Here, v)
    BY <1>3, <1>7, HereFields, Behinds, SessionDispatch
  <2> DEFINE n == (IF v[2] THEN Bypp ELSE 0) + (IF v[3] THEN Bypp ELSE 0)
                    + (IF v[4] # "none" THEN 1 ELSE 0)
             a == [args EXCEPT !.bg = args.bg \/ v[2], !.fg = args.fg \/ v[3], !.sub = v[4]]
  <2>3. CASE v[1]
    <3>1. /\ RectangleNeeds("_handleDecodeHextileRAW", args.w * Bypp, args, FALSE)
          /\ Onward = Place("_handleDecodeHextileRAW", args.w * Bypp, args, rectangles)
      BY <2>2, <2>3, HereFields DEF DecodeHextile, BehindMask
    <3>2. "_handleDecodeHextileRAW" \in RectangleHandlers \cap HextileHandlers
      BY DEF RectangleHandlers, HextileHandlers
    <3> QED
      BY <1>4, <3>1, <3>2, TileNeedsMoves
  <2>4. CASE ~v[1]
    <3>1. v[2]
      BY <2>1, <2>4, MaskFields
    <3>2. n # 0
      <4>1. Bypp \in Nat \ {0}
        BY SizeAssumption
      <4> QED
        BY <3>1, <4>1
    <3>3. RectangleNeeds("_handleDecodeHextileSubrect", n, a, FALSE)
      BY <2>2, <2>4, <3>2 DEF DecodeHextile
    <3>4. Onward = Place("_handleDecodeHextileSubrect", n, a, rectangles)
      BY <2>2, <2>4, HereFields DEF BehindMask
    <3>5. a.w = 1
      <4>1. /\ (args.bg \/ v[2]) \in BOOLEAN /\ (args.fg \/ v[3]) \in BOOLEAN
            /\ v[4] \in {"none", "fg", "coloured"}
        BY <2>1, MaskFields
      <4>2. \A bg, fg \in BOOLEAN, sub \in {"none", "fg", "coloured"} :
              [args EXCEPT !.bg = bg, !.fg = fg, !.sub = sub].w = args.w
        BY <1>2, ArgsWidth
      <4>3. a.w = args.w
        BY <4>1, <4>2, Zenon
      <4> QED
        BY <1>4, <4>3
    <3>6. "_handleDecodeHextileSubrect" \in RectangleHandlers \cap HextileHandlers
      BY DEF RectangleHandlers, HextileHandlers
    <3> HIDE DEF n, a
    <3> QED
      BY <3>3, <3>4, <3>5, <3>6, TileNeedsMoves
  <2> QED
    BY <2>3, <2>4
<1>8. CASE expectedHandler = "_handleDecodeHextileSubrect"
  <2>1. v \in Nat /\ args.bg
    BY <1>1, <1>8, HereFields DEF ValueFits
  <2>2. DecodeHextileSubrect(v) /\ Onward = BehindColours(Here, v)
    BY <1>3, <1>8, HereFields, Behinds, SessionDispatch
  <2>3. CASE v = 0
    <3>1. NextHextileTile(args, TRUE) /\ Onward = BehindTile(args, rectangles)
      BY <1>6, <2>1, <2>2, <2>3, HereFields DEF DecodeHextileSubrect,
             BehindColours, FillsNone
    <3> QED
      BY <1>2, <1>4, <3>1, TileMoves
  <2>4. CASE v # 0 /\ args.sub = "coloured"
    <3>1. /\ RectangleNeeds("_handleDecodeHextileSubrectsColoured", (Bypp + 2) * v, args, TRUE)
          /\ Onward = Place("_handleDecodeHextileSubrectsColoured", (Bypp + 2) * v, args, rectangles)
      BY <1>6, <2>1, <2>2, <2>4, HereFields DEF DecodeHextileSubrect,
             BehindColours, FillsNone
    <3>2. "_handleDecodeHextileSubrectsColoured" \in RectangleHandlers \cap HextileHandlers
      BY DEF RectangleHandlers, HextileHandlers
    <3> QED
      BY <1>4, <3>1, <3>2, TileNeedsMoves
  <2>5. CASE v # 0 /\ args.sub # "coloured"
    <3>1. /\ RectangleNeeds("_handleDecodeHextileSubrectsFG", 2 * v, args, TRUE)
          /\ Onward = Place("_handleDecodeHextileSubrectsFG", 2 * v, args, rectangles)
      BY <1>6, <2>1, <2>2, <2>5, HereFields DEF DecodeHextileSubrect,
             BehindColours, FillsNone
    <3>2. "_handleDecodeHextileSubrectsFG" \in RectangleHandlers \cap HextileHandlers
      BY DEF RectangleHandlers, HextileHandlers
    <3> QED
      BY <1>4, <3>1, <3>2, TileNeedsMoves
  <2> QED
    BY <2>3, <2>4, <2>5
<1>9. CASE expectedHandler = "_handleDecodeHextileRAW"
  <2>1. NextHextileTile(args, TRUE) /\ Onward = BehindTile(args, rectangles)
    BY <1>3, <1>6, <1>9, HereFields, Behinds, SessionDispatch DEF DecodeHextileRAW
  <2> QED
    BY <1>2, <1>4, <2>1, TileMoves
<1>10. CASE expectedHandler = "_handleDecodeHextileSubrectsColoured"
  <2> DEFINE a == [args EXCEPT !.fg = TRUE]
  <2>1. NextHextileTile(a, TRUE) /\ Onward = BehindTile(a, rectangles)
    BY <1>3, <1>10, HereFields, Behinds, SessionDispatch DEF
           DecodeHextileSubrectsColoured
  <2>2. a \in Args /\ a.w = 1 /\ a.tiles # 0
    BY <1>2, <1>4, ArgsFields
  <2> HIDE DEF a
  <2> QED
    BY <2>1, <2>2, TileMoves
<1>11. CASE expectedHandler = "_handleDecodeHextileSubrectsFG"
  <2>1. DecodeHextileSubrectsFG /\ Onward = BehindTile(args, rectangles)
    BY <1>3, <1>11, HereFields, Behinds, SessionDispatch
  <2>2. CASE FillsNone(args.fg)
    BY <1>5, <2>2
  <2>3. CASE NextHextileTile(args, TRUE)
    BY <1>2, <1>4, <2>1, <2>3, TileMoves
  <2> QED
    BY <2>1, <2>2, <2>3 DEF DecodeHextileSubrectsFG
<1> QED
  BY <1>7, <1>8, <1>9, <1>10, <1>11 DEF HextileHandlers

-----------------------------------------------------------------------------
(* What such a call keeps.                                                 *)

\* A place is its four fields.
LEMMA PlaceIs == \A p \in Places : Place(p.h, p.n, p.a, p.r) = p
BY DEF Place, Places

\* The fields that a request is on its way in.
LEMMA HeaderKinds ==
  /\ Reads("_handleFramebufferUpdate") = "UpdateHeader"
  /\ Reads("_handleRectangle") = "RectangleHeader"
  /\ \A h \in MessageHandlers \ {"_handleFramebufferUpdate"} :
       Reads(h) \notin {"UpdateHeader", "RectangleHeader"}
BY DEF Reads, MessageHandlers

\* Whoever waits after a commit has asked.
LEMMA CommitAsks ==
  ASSUME deferred \in BOOLEAN, requested \in BOOLEAN, NEW pos, NEW paint,
         CommitUpdate(pos, paint)
  PROVE  deferred' \in BOOLEAN /\ requested' \in BOOLEAN /\ (deferred' => requested')
<1>1. CASE ~deferred /\ UNCHANGED refresh
  BY <1>1 DEF refresh
<1>2. CASE deferred /\ pos = 0 /\ requested' = TRUE /\ UNCHANGED <<deferred, lastRefresh>>
  BY <1>2
<1>3. CASE \E again \in BOOLEAN : deferred' = again /\ requested' = (requested \/ again)
  <2>1. PICK again \in BOOLEAN : deferred' = again /\ requested' = (requested \/ again)
    BY <1>3
  <2>2. CASE again = TRUE
    BY <2>1, <2>2
  <2>3. CASE again = FALSE
    BY <2>1, <2>3
  <2> QED
    BY <2>2, <2>3
<1> QED
  BY <1>1, <1>2, <1>3 DEF CommitUpdate

\* A request stays outstanding while the client takes fields.
LEMMA AdvancesOutstanding ==
  ASSUME SessionTypes, stream # <<>>, Fits(uses, Here, Head(stream)), Advances,
         stream' = Tail(stream), UNCHANGED server, RequestOutstanding
  PROVE  RequestOutstanding'
<1> SUFFICES ASSUME deferred', transport' = "open" PROVE RequestOutstanding'
  BY DEF RequestOutstanding
<1>1. expectedHandler' = Onward.h /\ transport' = transport /\ owed' = owed
  BY DEF Advances, Moves, Expect, Steady, server
<1>2. CASE Onward.h \in RectangleHandlers
  BY <1>1, <1>2 DEF RequestOutstanding
<1>3. CASE expectedHandler \in RectangleHandlers /\ Onward.h = "_handleConnection"
  <2>1. CommitUpdate(rectanglePos', painted')
    BY <1>3 DEF Advances, Refreshes
  <2>2. requested'
    BY <2>1, CommitAsks DEF SessionTypes, ClientTypes
  <2> QED
    BY <2>2 DEF RequestOutstanding
<1>4. CASE expectedHandler \in MessageHandlers \ {"_handleFramebufferUpdate"}
  <2>1. expectedHandler \notin RectangleHandlers
    BY <1>4 DEF MessageHandlers, RectangleHandlers
  <2>2. deferred' = deferred /\ requested' = requested
    BY <2>1 DEF Advances, Refreshes, refresh
  <2>3. CASE requested \/ owed > 0
    BY <1>1, <2>2, <2>3 DEF RequestOutstanding
  <2>4. CASE \E i \in 1..Len(stream) : stream[i].kind \in {"UpdateHeader", "RectangleHeader"}
    <3>1. PICK i \in 1..Len(stream) : stream[i].kind \in {"UpdateHeader", "RectangleHeader"}
      BY <2>4
    <3>2. /\ Len(stream) \in Nat \ {0} /\ Len(Tail(stream)) = Len(stream) - 1
          /\ Head(stream) = stream[1]
          /\ \A k \in 1..Len(stream) - 1 : Tail(stream)[k] = stream[k + 1]
      BY Beheaded DEF SessionTypes, ServerTypes
    <3>3. i # 1
      <4>1. Head(stream).kind = Reads(expectedHandler)
        BY HereFields DEF Fits
      <4> QED
        BY <1>4, <3>1, <3>2, <4>1, HeaderKinds
    <3>4. i - 1 \in 1..Len(stream) - 1 /\ (i - 1) + 1 = i
      BY <3>2, <3>3
    <3>5. i - 1 \in 1..Len(stream') /\ stream'[i - 1] = stream[i]
      BY <3>2, <3>4
    <3> QED
      BY <3>1, <3>5 DEF RequestOutstanding
  <2> QED
    BY <1>1, <2>1, <2>2, <2>3, <2>4 DEF RequestOutstanding
<1> QED
  BY <1>2, <1>3, <1>4 DEF Advances, StaysInUpdate

\* A refresh is completed only by an update that was painted.
LEMMA AdvancesPainting ==
  ASSUME Painting, transport = "open", Advances, UNCHANGED server
  PROVE  Painting'
<1> SUFFICES ASSUME uses \cap {"cursor", "copyRect"} = {}
             PROVE  lastRefresh' # "unpainted" /\ Paints'
  BY DEF Painting, server
<1>1. lastRefresh # "unpainted" /\ Paints
  BY DEF Painting
<1>2. Paints' /\ expectedHandler' = Onward.h
  BY <1>1 DEF Advances, KeepsPaint, Moves, Expect
<1>3. CASE Onward.h = "_handleConnection"
  <2>1. rectanglePos' # 0 => painted'
    BY <1>2, <1>3 DEF Paints, HextileHandlers
  <2> QED
    BY <1>1, <1>2, <2>1 DEF Advances, Refreshes, CommitUpdate, refresh
<1>4. CASE Onward.h # "_handleConnection"
  BY <1>1, <1>2, <1>4 DEF Advances, Refreshes, refresh
<1> QED
  BY <1>3, <1>4

\* The client takes a field and stays on the path.
LEMMA AdvancesOK ==
  ASSUME SInv, transport = "open", Serves, InFrame, pumping, Advances,
         stream' = Tail(stream), UNCHANGED <<wire, server>>
  PROVE  SInv'
<1>1. SessionTypes /\ Blocks /\ InStep /\ RequestOutstanding /\ Painting
  BY DEF SInv
<1>2. stream \in Seq(Fields) /\ stream # <<>> /\ Head(stream).len = expectedLen
  BY <1>1 DEF SessionTypes, ServerTypes, InFrame
<1>3. PICK e : Path(uses, stream, Here, e) /\ ServerAt(e)
  BY DEF Serves
<1>4. /\ Fits(uses, Here, Head(stream)) /\ Onward \in Places
      /\ Path(uses, Tail(stream), Onward, e)
  BY <1>2, <1>3, PathShrinks DEF Onward
<1>5. expectedHandler # "_handleInitial" /\ packet >= expectedLen
  <2>1. expectedHandler \in Reading
    BY <1>4, HereFields DEF Fits
  <2> QED
    BY <1>1, <2>1, ReadingHandlers DEF Blocks
<1>6. /\ Expect(Onward.h, Onward.n, Onward.a) /\ rectangles' = Onward.r /\ Steady
      /\ rectanglePos' \in Nat /\ painted' \in BOOLEAN
  BY DEF Advances, Moves, KeepsPaint
<1>7. Onward.h \in Handlers /\ Onward.n \in Nat /\ Onward.a \in Args /\ Onward.r \in Nat
  BY <1>4, PlaceTypes
<1>8. Here' = Onward
  BY <1>4, <1>6, PlaceIs DEF Here, Expect
<1>9. packet' \in Nat /\ packet' = packet - expectedLen
  BY <1>1, <1>5, <1>6 DEF Expect, SessionTypes, ClientTypes
<1>10. Tail(stream) \in Seq(Fields)
  BY <1>2, Beheaded
<1>11. deferred' \in BOOLEAN /\ requested' \in BOOLEAN
  BY <1>1, CommitAsks DEF SessionTypes, ClientTypes, Advances, Refreshes, refresh
<1>12. SessionTypes'
  BY <1>1, <1>6, <1>7, <1>9, <1>10, <1>11
     DEF SessionTypes, ClientTypes, ServerTypes, Expect, Steady, session, outcome, server
<1>13. Blocks'
  BY <1>1, <1>6, <1>7, <1>9 DEF Blocks, Expect, Steady
<1>14. InStep'
  <2>1. Serves'
    <3>1. ServerAt(e)'
      BY <1>3 DEF ServerAt, Between, server
    <3>2. Path(uses, stream, Here, e)'
      BY <1>4, <1>6, <1>8 DEF Steady, session, server
    <3> QED
      BY <1>6, <3>1, <3>2 DEF Serves, Steady, session, server
  <2>2. Total(stream', packet' + wire')
    <3>1. Total(stream, packet + wire) /\ packet + wire \in Nat
      BY <1>1 DEF InStep, SessionTypes, ClientTypes, ServerTypes
    <3>2. Total(Tail(stream), (packet + wire) - expectedLen)
      BY <1>2, <3>1, TotalShrinks
    <3>3. (packet + wire) - expectedLen = packet' + wire'
      BY <1>1, <1>9 DEF SessionTypes, ClientTypes, ServerTypes
    <3> QED
      BY <3>2, <3>3
  <2> QED
    BY <1>1, <1>6, <2>1, <2>2 DEF InStep, Steady, outcome
<1>15. RequestOutstanding' /\ Painting'
  BY <1>1, <1>2, <1>4, AdvancesOutstanding, AdvancesPainting
<1>16. Benign => ServerUnderstood'
  BY <1>6 DEF SInv, ServerUnderstood, Steady, outcome, Expect, server
<1> QED
  BY <1>12, <1>13, <1>14, <1>15, <1>16 DEF SInv

\* The client stops for good.
LEMMA FailsOK ==
  ASSUME SInv, transport # "closed", pumping, Fails, stream' \in Seq(Fields),
         UNCHANGED <<wire, server>>
  PROVE  SInv'
<1>1. SessionTypes /\ Blocks /\ Painting
  BY DEF SInv
<1>2. rectangles' \in Nat /\ rectanglePos' \in Nat /\ painted' \in BOOLEAN
  BY DEF Fails
<1>5. ServerTypes'
  BY <1>1 DEF SessionTypes, ServerTypes, server
<1>3. CASE Raise
  <2>1. ClientTypes'
    <3>1. ClientTypes
      BY <1>1 DEF SessionTypes
    <3>2. /\ packet' = packet /\ expectedLen' = expectedLen /\ args' = args /\ pumping' = FALSE
          /\ aborted' = aborted
      BY <1>3 DEF Raise
    <3>3. version' = version /\ width' = width /\ deferred' = deferred /\ requested' = requested
      BY <1>3 DEF Raise, session, refresh
    <3>4. factoryDeferred' = factoryDeferred /\ transport' = "closed"
      BY <1>3 DEF Raise
    <3>5. pumping' \in BOOLEAN /\ aborted' \in BOOLEAN
      <4>1. aborted \in BOOLEAN
        BY <3>1 DEF ClientTypes
      <4>2. aborted' \in BOOLEAN
        BY <3>2, <4>1
      <4>3. pumping' \in BOOLEAN
        BY <3>2
      <4> QED
        BY <4>2, <4>3
    <3> QED
      BY <1>2, <3>1, <3>2, <3>3, <3>4, <3>5 DEF ClientTypes
  <2>2. Blocks' /\ InStep' /\ RequestOutstanding'
    BY <1>1, <1>3 DEF Raise, Blocks, InStep, RequestOutstanding
  <2>3. Painting'
    BY <1>1, <1>3 DEF Painting, Raise, refresh, server
  <2>4. Benign => ServerUnderstood'
    BY <1>3 DEF SInv, ServerUnderstood, Raise, server
  <2> QED
    BY <1>5, <2>1, <2>2, <2>3, <2>4 DEF SInv, SessionTypes
<1>4. CASE (MemoryErrors \/ grown) /\ AbortConnection
  <2>1. /\ transport' \in {"closing", "closed"} /\ aborted' /\ ~pumping' /\ packet' = 0
        /\ factoryDeferred' \in {"pending", "made", "failed"}
    BY <1>1, <1>4 DEF AbortConnection, LoseConnection, ClientConnectionFailed,
           SessionTypes,
                         ClientTypes, outcome
  <2>2. ClientTypes'
    <3>1. ClientTypes
      BY <1>1 DEF SessionTypes
    <3>2. /\ expectedLen' = expectedLen /\ args' = args /\ version' = version /\ width' = width
          /\ deferred' = deferred /\ requested' = requested
      BY <1>4 DEF AbortConnection, session, refresh
    <3>3. pumping' \in BOOLEAN /\ aborted' \in BOOLEAN
      BY <1>4 DEF AbortConnection
    <3> QED
      BY <1>2, <2>1, <3>1, <3>2, <3>3 DEF ClientTypes
  <2>3. Blocks' /\ InStep' /\ RequestOutstanding'
    BY <2>1 DEF Blocks, InStep, RequestOutstanding
  <2>4. Painting'
    BY <1>1, <1>4, <2>1 DEF Painting, AbortConnection, refresh, server
  <2> QED
    <3>1. Benign => ServerUnderstood'
      BY <1>4 DEF Benign, ServerUnderstood, server
    <3> QED
      BY <1>5, <2>2, <2>3, <2>4, <3>1 DEF SInv, SessionTypes
<1> QED
  BY <1>3, <1>4 DEF Fails

\* A handler is called only in dataReceived's loop.
LEMMA HandlesPump ==
  ASSUME ClientHandles PROVE pumping
<1>1. CASE expectedHandler = "_handleRectangle"
  BY <1>1 DEF ClientHandles, HandleRectangle, RawRectangle, CopyRectangle, RRERectangle,
         ZRLERectangle, CursorRectangle, HextileRectangle, Rectangle, LastRect, Running
<1>2. CASE expectedHandler # "_handleRectangle"
  <2>1. Handle(Head(stream).value)
    BY <1>2 DEF ClientHandles
  <2> QED
    BY <2>1, StartupDispatch
<1> QED
  BY <1>1, <1>2

\* Handler calls in the session.
LEMMA ServesHandles ==
  ASSUME SInv, Sizes, transport = "open", Serves, ClientHandles
  PROVE  SInv' /\ width' = width
<1>1. SessionTypes /\ stream \in Seq(Fields) /\ stream # <<>> /\ InFrame
  BY DEF SInv, SessionTypes, ServerTypes, ClientHandles, InFrame
<1>2. PICK e : Path(uses, stream, Here, e)
  BY DEF Serves
<1>3. Fits(uses, Here, Head(stream)) /\ expectedHandler \in Reading
  BY <1>1, <1>2, PathShrinks, HereFields DEF Fits
<1>4. stream' = Tail(stream) /\ Tail(stream) \in Seq(Fields) /\ UNCHANGED <<wire, server>>
  BY <1>1, Beheaded DEF ClientHandles
<1> DEFINE v == Head(stream).value
<1>5. pumping
  BY HandlesPump
<1>6. Ready
  BY <1>1, <1>3, <1>5 DEF Ready
<1>8. HeadFits
  <2>1. stream[1] = Head(stream) /\ 1 \in 1..Len(stream)
    BY <1>1, Beheaded
  <2>2. expectedHandler = "_handleRectangle" => Head(stream).kind = "RectangleHeader"
    BY <1>3, HereFields DEF Fits, Reads
  <2>3. ~grown => FitsWidth(stream, width)
    BY DEF Serves, Sizes
  <2> QED
    BY <2>1, <2>2, <2>3 DEF FitsWidth, HeadFits
<1>7. Advances \/ Fails
  <2>1. CASE expectedHandler = "_handleRectangle"
    <3>1. HandleRectangle(v)
      BY <2>1 DEF ClientHandles
    <3> QED
      BY <1>6, <1>8, <2>1, <3>1, HeaderMoves
  <2>2. CASE expectedHandler # "_handleRectangle"
    <3>1. Handle(v)
      BY <2>2 DEF ClientHandles
    <3>2. \/ expectedHandler \in MessageHandlers
          \/ expectedHandler \in Bodies
          \/ expectedHandler \in HextileHandlers
      BY <1>3, <2>2 DEF Reading, SessionHandlers, MessageHandlers,
             RectangleHandlers, Bodies, HextileHandlers
    <3> QED
      BY <1>6, <3>1, <3>2, MessageMoves, BodyMoves, HextileMoves
  <2> QED
    BY <2>1, <2>2
<1>9. width' = width
  BY <1>7 DEF Advances, Moves, Steady, Fails, Raise, AbortConnection, session
<1> QED
  BY <1>1, <1>4, <1>5, <1>7, <1>9, AdvancesOK, FailsOK

-----------------------------------------------------------------------------
(* A handler call in the startup.                                          *)

\* The fields of a field.
LEMMA FieldOf ==
  ASSUME NEW k, NEW n, NEW v
  PROVE  F(k, n, v).kind = k /\ F(k, n, v).len = n /\ F(k, n, v).value = v
BY DEF F

\* The first of a few fields.
LEMMA Heads ==
  ASSUME NEW f, NEW g, NEW h
  PROVE  /\ Head(<<f>>) = f /\ Tail(<<f>>) = <<>>
         /\ Head(<<f, g>>) = f /\ Tail(<<f, g>>) = <<g>>
         /\ Head(<<f, g, h>>) = f /\ Tail(<<f, g, h>>) = <<g, h>>
OBVIOUS

\* What the client has written tells the security types apart.
LEMMA WrittenApart ==
  /\ Append(<<>>, "init") = <<"init">> /\ Append(<<"none">>, "init") = <<"none", "init">>
  /\ <<"init">> \in Inits /\ <<"none", "init">> \in Inits
  /\ <<"encodings">> \notin Inits /\ <<"version">> \notin Inits /\ <<"none">> \notin Inits
  /\ <<"response">> \notin Inits /\ <<"vnc">> \notin Inits /\ <<"dh">> \notin Inits /\ <<>> \notin Inits
<1>1. Append(<<>>, "init") = <<"init">> /\ Append(<<"none">>, "init") = <<"none", "init">>
  BY Appended
<1>2. <<"init">> \in Inits /\ <<"none", "init">> \in Inits
  BY DEF Inits
<1>3. ASSUME NEW x, x # "init" PROVE <<x>> \notin Inits
  <2>1. <<x>>[1] = x /\ Len(<<x>>) = 1
    OBVIOUS
  <2>2. <<"init">>[1] = "init" /\ Len(<<"none", "init">>) = 2
    OBVIOUS
  <2> QED
    BY <1>3, <2>1, <2>2 DEF Inits
<1>4. <<>> \notin Inits
  <2>1. Len(<<>>) = 0 /\ Len(<<"init">>) = 1 /\ Len(<<"none", "init">>) = 2
    OBVIOUS
  <2> QED
    BY <2>1 DEF Inits
<1> QED
  BY <1>1, <1>2, <1>3, <1>4

\* The call takes the next field.
LEMMA StartupCalls ==
  ASSUME SInv, ClientHandles, expectedHandler \in HandshakeHandlers \cup InitHandlers
  PROVE  /\ Handle(Head(stream).value) /\ pumping /\ ~aborted /\ stream # <<>>
         /\ stream' = Tail(stream) /\ Tail(stream) \in Seq(Fields) /\ UNCHANGED <<wire, server>>
         /\ expectedHandler # "_handleInitial" => packet >= expectedLen
<1>1. stream \in Seq(Fields) /\ stream # <<>>
  BY DEF SInv, SessionTypes, ServerTypes, ClientHandles, InFrame
<1>2. expectedHandler # "_handleRectangle"
  BY DEF HandshakeHandlers, InitHandlers
<1>3. Handle(Head(stream).value)
  BY <1>2 DEF ClientHandles
<1>4. pumping
  BY <1>3, StartupDispatch
<1> QED
  BY <1>1, <1>3, <1>4, Beheaded DEF ClientHandles, SInv, Blocks

\* The loop goes on while it has a block.
LEMMA ExpectTakes ==
  ASSUME packet \in Nat, expectedLen \in Nat, packet >= expectedLen, NEW h, NEW n \in Nat, NEW a,
         Expect(h, n, a)
  PROVE  packet' \in Nat /\ pumping' \in BOOLEAN /\ (pumping' => packet' >= expectedLen')
<1>1. packet' \in Nat
  BY DEF Expect
<1>2. pumping' \in BOOLEAN
  BY DEF Expect
<1>3. pumping' => packet' >= expectedLen'
  BY DEF Expect
<1> QED
  BY <1>1, <1>2, <1>3

\* A call that parks the next handler of the startup.
Startups == Greets \/ Offers \/ Challenges \/ Accepts \/ Refuses \/ Starts

\* It leaves the session in step when the next stage of the startup holds.
LEMMA StartupMoves ==
  ASSUME SInv, transport = "open", Startup, InFrame, packet >= expectedLen,
         NEW h \in HandshakeHandlers \cup InitHandlers, NEW n \in Nat, NEW a \in Args,
         Expect(h, n, a), Handshake, version' \in {0, 3003, 3007, 3008}, width' \in Nat,
         stream' = Tail(stream), UNCHANGED <<wire, server>>, Startups'
  PROVE  SInv'
<1>1. SessionTypes /\ Blocks /\ InStep /\ Painting
  BY DEF SInv
<1>2. stream \in Seq(Fields) /\ stream # <<>> /\ Head(stream).len = expectedLen
  BY <1>1 DEF SessionTypes, ServerTypes, InFrame
<1>3. packet' \in Nat /\ packet' = packet - expectedLen
  BY <1>1 DEF Expect, SessionTypes, ClientTypes
<1>4. Tail(stream) \in Seq(Fields)
  BY <1>2, Beheaded
<1>5. UNCHANGED <<update, refresh, outcome, transport>>
  BY DEF Handshake
<1>6. ClientTypes'
  BY <1>1, <1>3, <1>5 DEF SessionTypes, ClientTypes, Expect, update, refresh, outcome
<1>7. ServerTypes'
  BY <1>1, <1>4 DEF SessionTypes, ServerTypes, server
<1>8. Blocks'
  <2>1. aborted = FALSE
    BY <1>1 DEF Blocks, SessionTypes, ClientTypes
  <2>2. packet \in Nat /\ expectedLen \in Nat
    BY <1>1 DEF SessionTypes, ClientTypes
  <2>3. pumping' => packet' >= expectedLen'
    BY <2>2, ExpectTakes
  <2>4. ~aborted' /\ transport' # "closed"
    BY <1>5, <2>1 DEF Expect
  <2> QED
    BY <2>3, <2>4 DEF Blocks
<1>9. Startup'
  BY <1>5 DEF Startup, Startups, update, refresh, outcome, server
<1>10. Total(stream', packet' + wire')
  <2>1. Total(stream, packet + wire) /\ packet + wire \in Nat
    BY <1>1 DEF InStep, SessionTypes, ClientTypes, ServerTypes
  <2>2. Total(Tail(stream), (packet + wire) - expectedLen)
    BY <1>2, <2>1, TotalShrinks
  <2>3. (packet + wire) - expectedLen = packet' + wire'
    BY <1>1, <1>3 DEF SessionTypes, ClientTypes, ServerTypes
  <2> QED
    BY <2>2, <2>3
<1>11. InStep'
  BY <1>1, <1>5, <1>9, <1>10 DEF InStep, outcome
<1>12. RequestOutstanding'
  BY <1>9 DEF RequestOutstanding, Startup
<1>13. Painting'
  <2>1. /\ h \notin HextileHandlers \cup {"_pumpPixels", "_handleDecodeRRE"}
        /\ h \notin {"_handleDecodeZRLE", "_handleDecodeZRLEdata"}
        /\ h \notin {"_pumpForClient", "_handleDecodePsuedoCursor"}
    BY DEF HandshakeHandlers, InitHandlers, HextileHandlers
  <2>2. expectedHandler' = h /\ rectanglePos' = 0
    BY <1>9 DEF Expect, Startup
  <2>3. Paints'
    BY <2>1, <2>2 DEF Paints
  <2> QED
    BY <1>1, <1>5, <2>3 DEF Painting, refresh, server
<1>14. Benign => ServerUnderstood'
  BY <1>5 DEF SInv, ServerUnderstood, Expect, outcome, server
<1> QED
  BY <1>6, <1>7, <1>8, <1>11, <1>12, <1>13, <1>14 DEF SInv, SessionTypes

\* A call that gives up while the server has no more to say.
LEMMA ClosesOK ==
  ASSUME SInv, transport \in {"open", "closing"}, ~aborted, packet' \in Nat, expectedLen' \in Nat,
         args' \in Args, aborted' = aborted, pumping' = (packet' >= expectedLen'),
         NEW kind \in {"protocol", "auth"}, ClientConnectionFailed(kind), transport' = "closing",
         UNCHANGED <<session, update, refresh>>, stream' = <<>>, UNCHANGED <<wire, server>>,
         owed = 0, tiles = 0,
         \/ phase = "refused"
         \/ /\ phase = "challenged" /\ wrote # <<"response">> /\ kind = "auth"
            /\ expectedHandler' = "_handleVNCAuthResult"
  PROVE  SInv'
<1>1. SessionTypes /\ Blocks /\ Painting
  BY DEF SInv
<1>2. reported' = (IF reported = "none" THEN kind ELSE reported) /\ reported' # "none"
  BY DEF ClientConnectionFailed
<1>3. factoryDeferred' \in {"pending", "made", "failed"}
  BY <1>1 DEF SessionTypes, ClientTypes, ClientConnectionFailed
<1>4. pumping' \in BOOLEAN /\ aborted' = FALSE
  BY <1>1 DEF SessionTypes, ClientTypes
<1>5. ClientTypes'
  BY <1>1, <1>3, <1>4 DEF SessionTypes, ClientTypes, session, update, refresh
<1>6. ServerTypes'
  BY <1>1 DEF SessionTypes, ServerTypes, server
<1>7. Blocks'
  BY <1>4 DEF Blocks
<1>8. GaveUp'
  BY <1>2 DEF GaveUp, server, session
<1>9. InStep' /\ RequestOutstanding'
  BY <1>8 DEF InStep, RequestOutstanding
<1>10. Painting'
  BY <1>1 DEF Painting, refresh, server
<1>11. Benign => ServerUnderstood'
  BY <1>2, <1>4 DEF SInv, ServerUnderstood, server
<1> QED
  BY <1>5, <1>6, <1>7, <1>9, <1>10, <1>11 DEF SInv, SessionTypes

\* The same for one that reports a reason or a refusal.
LEMMA GiveUpOn ==
  ASSUME SInv, transport \in {"open", "closing"}, pumping, packet >= expectedLen,
         NEW kind \in {"protocol", "auth"}, GiveUp(kind), UNCHANGED update, stream' = <<>>,
         UNCHANGED <<wire, server>>, owed = 0, tiles = 0, phase = "refused"
  PROVE  SInv'
<1>1. SessionTypes /\ Blocks /\ ~aborted
  BY DEF SInv, Blocks
<1>2. CASE Raise
  <2>1. Fails
    BY <1>1, <1>2 DEF Fails, SessionTypes, ClientTypes, update
  <2> QED
    BY <2>1, FailsOK
<1>3. CASE /\ ClientConnectionFailed(kind) /\ LoseConnection /\ StayParked
           /\ UNCHANGED <<session, refresh>>
  <2>1. transport' = "closing"
    BY <1>3 DEF LoseConnection
  <2>2. /\ packet' \in Nat /\ expectedLen' \in Nat /\ args' \in Args /\ aborted' = aborted
        /\ pumping' = (packet' >= expectedLen') /\ expectedHandler' = expectedHandler
    BY <1>1, <1>3 DEF SessionTypes, ClientTypes, StayParked
  <2> QED
    BY <1>1, <1>3, <2>1, <2>2, ClosesOK
<1> QED
  BY <1>2, <1>3 DEF GiveUp

\* The answer to the greeting.
LEMMA GreetsHandles ==
  ASSUME SInv, transport = "open", Startup, Greets, ClientHandles
  PROVE  SInv'
<1>1. SessionTypes /\ InFrame /\ stream # <<>>
  BY DEF SInv, ClientHandles, InFrame
<1>2. PICK v \in ServerVersions :
        /\ phase = "greeted" /\ At("_handleInitial", 12)
        /\ stream = <<F("ProtocolVersion", 12, v)>>
  BY <1>1 DEF Greets
<1>3. expectedHandler = "_handleInitial" /\ expectedLen = 12
  BY <1>2 DEF At
<1>4. /\ Handle(Head(stream).value) /\ pumping /\ stream' = Tail(stream)
      /\ Tail(stream) \in Seq(Fields) /\ UNCHANGED <<wire, server>>
  BY <1>3, StartupCalls DEF HandshakeHandlers
<1>5. Head(stream).value = v /\ stream' = <<>>
  BY <1>2, <1>4, Heads, FieldOf
<1>6. Greeting(v)
  BY <1>3, <1>4, <1>5, StartupDispatch
<1>7. CASE Raise /\ UNCHANGED update
  <2>1. Fails
    BY <1>1, <1>7 DEF Fails, SessionTypes, ClientTypes, update
  <2> QED
    BY <1>4, <2>1, FailsOK
<1>8. CASE v >= 3003 /\ Handshake
  <2>1. NegotiatedVersion(v) \in {3003, 3007, 3008}
    BY <1>8, VersionNegotiated, VersionAssumption
  <2>2. /\ version' = NegotiatedVersion(v) /\ wrote' = <<"version">> /\ packet >= expectedLen
        /\ width' = width
    <3>1. ~(v < 3003)
      BY <1>8, VersionAssumption
    <3> QED
      BY <1>3, <1>6, <3>1 DEF Greeting
  <2>3. IF NegotiatedVersion(v) < 3007 THEN Expect("_handleAuth", 4, NoArgs)
                                       ELSE Expect("_handleNumberSecurityTypes", 1, NoArgs)
    <3>1. ~(v < 3003)
      BY <1>8, VersionAssumption
    <3> QED
      BY <1>6, <3>1 DEF Greeting
  <2>4. phase' = "greeted" /\ width' \in Nat /\ NoArgs \in Args
    BY <1>1, <1>2, <1>4, <2>2, NoArgsOK DEF server, SessionTypes, ClientTypes
  <2>5. CASE NegotiatedVersion(v) < 3007
    <3>1. Expect("_handleAuth", 4, NoArgs) /\ version' < 3007
      BY <2>2, <2>3, <2>5
    <3>2. At("_handleAuth", 4)'
      BY <3>1 DEF Expect, At
    <3>3. Startups'
      BY <1>5, <2>2, <2>4, <3>1, <3>2 DEF Greets, Startups
    <3> QED
      BY <1>1, <1>4, <1>8, <2>1, <2>2, <2>4, <3>1, <3>3, StartupMoves DEF
             HandshakeHandlers
  <2>6. CASE ~(NegotiatedVersion(v) < 3007)
    <3>1. Expect("_handleNumberSecurityTypes", 1, NoArgs) /\ ~(version' < 3007)
      BY <2>2, <2>3, <2>6
    <3>2. At("_handleNumberSecurityTypes", 1)'
      BY <3>1 DEF Expect, At
    <3>3. Startups'
      BY <1>5, <2>2, <2>4, <3>1, <3>2 DEF Greets, Startups
    <3> QED
      BY <1>1, <1>4, <1>8, <2>1, <2>2, <2>4, <3>1, <3>3, StartupMoves DEF
             HandshakeHandlers
  <2> QED
    BY <2>5, <2>6
<1> QED
  BY <1>6, <1>7, <1>8 DEF Greeting

\* An offer is one of a few types, and not of none.
LEMMA OfferCounted ==
  ASSUME NEW types \in SUBSET {AuthNone, AuthVNC, AuthDH, 16}, types \cap SupportedAuths # {}
  PROVE  Cardinality(types) \in Nat \ {0}
<1>1. types \in SUBSET (1..30)
  BY DEF AuthNone, AuthVNC, AuthDH
<1>2. IsFiniteSet(1..30)
  <2>1. 1 \in Int /\ 30 \in Int
    OBVIOUS
  <2> QED
    BY <2>1, FS_Interval, Zenon
<1>3. IsFiniteSet(types)
  BY <1>1, <1>2, FS_Subset
<1>4. types # {}
  OBVIOUS
<1> QED
  BY <1>3, <1>4, FS_CardinalityType, FS_EmptySet

\* The choice of a security type.
LEMMA OffersHandles ==
  ASSUME SInv, transport = "open", Startup, Offers, ClientHandles
  PROVE  SInv'
<1>1. SessionTypes /\ InFrame /\ stream # <<>>
  BY DEF SInv, ClientHandles, InFrame
<1>2. PICK types : OfferOf(types)
  BY <1>1 DEF Offers
<1>3. phase = "offered" /\ version >= 3007 /\ wrote = <<"version">>
  BY <1>2 DEF Offers, OfferOf
<1> DEFINE c == Cardinality(types)
<1>4. c \in Nat \ {0}
  BY <1>2, OfferCounted DEF OfferOf
<1>5. \/ /\ At("_handleNumberSecurityTypes", 1)
         /\ stream = <<F("NumberOfSecurityTypes", 1, c), F("SecurityTypes", c, types)>>
      \/ At("_handleSecurityTypes", c) /\ stream = <<F("SecurityTypes", c, types)>>
  BY <1>2 DEF OfferOf
<1>6. types \cap SupportedAuths # {}
  BY <1>2 DEF OfferOf
<1>15. types \in SUBSET {AuthNone, AuthVNC, AuthDH, 16}
  BY <1>2 DEF OfferOf
<1> HIDE DEF c
<1>7. expectedHandler \in {"_handleNumberSecurityTypes", "_handleSecurityTypes"}
  BY <1>5 DEF At
<1>8. /\ Handle(Head(stream).value) /\ pumping /\ stream' = Tail(stream) /\ packet >= expectedLen
      /\ Tail(stream) \in Seq(Fields) /\ UNCHANGED <<wire, server>>
  BY <1>7, StartupCalls DEF HandshakeHandlers
<1>9. phase' = "offered" /\ NoArgs \in Args
  BY <1>3, <1>8, NoArgsOK DEF server
<1>10. version \in {0, 3003, 3007, 3008} /\ width \in Nat
  BY <1>1 DEF SessionTypes, ClientTypes
<1>11. CASE At("_handleNumberSecurityTypes", 1)
  <2>1. stream = <<F("NumberOfSecurityTypes", 1, c), F("SecurityTypes", c, types)>>
    BY <1>5, <1>11 DEF At
  <2>2. Head(stream).value = c /\ stream' = <<F("SecurityTypes", c, types)>>
    BY <1>8, <2>1, Heads, FieldOf
  <2>3. NumberSecurityTypes(c)
    BY <1>8, <1>11, <2>2, StartupDispatch DEF At
  <2>4. Expect("_handleSecurityTypes", c, NoArgs) /\ Handshake /\ UNCHANGED session
    BY <1>4, <2>3 DEF NumberSecurityTypes
  <2>5. wrote' = wrote /\ version' = version /\ width' = width
    BY <2>4 DEF session
  <2>6. At("_handleSecurityTypes", c)'
    BY <2>4 DEF Expect, At, c
  <2>7. OfferOf(types)'
    BY <1>3, <1>6, <1>15, <2>2, <2>5, <2>6 DEF OfferOf, c
  <2>8. Startups'
    BY <1>3, <1>9, <2>5, <2>7 DEF Offers, Startups
  <2> QED
    BY <1>1, <1>4, <1>8, <1>9, <1>10, <2>4, <2>5, <2>8, StartupMoves DEF
           HandshakeHandlers
<1>12. CASE At("_handleSecurityTypes", c)
  <2>1. stream = <<F("SecurityTypes", c, types)>>
    BY <1>5, <1>12 DEF At
  <2>2. Head(stream).value = types /\ stream' = <<>>
    BY <1>8, <2>1, Heads, FieldOf
  <2>3. SecurityTypes(types)
    BY <1>8, <1>12, <2>2, StartupDispatch DEF At
  <2>4. \/ /\ wrote' = <<"none", "init">> /\ Expect("_handleServerInit", 24, NoArgs) /\ version < 3008
        \/ /\ wrote' = <<"none">> /\ Expect("_handleVNCAuthResult", 4, NoArgs) /\ version >= 3008
        \/ wrote' = <<"vnc">> /\ Expect("_handleVNCAuth", 16, NoArgs)
        \/ wrote' = <<"dh">> /\ Expect("_handleDHAuth", 4, NoArgs)
    BY <1>6, <1>10, <2>3, WrittenApart DEF SecurityTypes, DoClientInitialization
  <2>5. Handshake /\ version' = version /\ width' = width
    BY <1>6, <2>3 DEF SecurityTypes
  <2>6. CASE wrote' = <<"none", "init">> /\ Expect("_handleServerInit", 24, NoArgs) /\ version < 3008
    <3>1. At("_handleServerInit", 24)'
      BY <2>6 DEF Expect, At
    <3>2. Startups'
      BY <1>3, <1>9, <2>2, <2>5, <2>6, <3>1 DEF Offers, Startups
    <3>3. "_handleServerInit" \in HandshakeHandlers \cup InitHandlers
      BY DEF InitHandlers
    <3> QED
      BY <1>1, <1>8, <1>9, <1>10, <2>5, <2>6, <3>2, <3>3, StartupMoves
  <2>7. CASE wrote' = <<"none">> /\ Expect("_handleVNCAuthResult", 4, NoArgs) /\ version >= 3008
    <3>1. At("_handleVNCAuthResult", 4)'
      BY <2>7 DEF Expect, At
    <3>2. Startups'
      BY <1>3, <1>9, <2>2, <2>5, <2>7, <3>1 DEF Offers, Startups
    <3> QED
      BY <1>1, <1>8, <1>9, <1>10, <2>5, <2>7, <3>2, StartupMoves DEF HandshakeHandlers
  <2>8. CASE wrote' = <<"vnc">> /\ Expect("_handleVNCAuth", 16, NoArgs)
    <3>1. At("_handleVNCAuth", 16)'
      BY <2>8 DEF Expect, At
    <3>2. Startups'
      BY <1>3, <1>9, <2>2, <2>5, <2>8, <3>1 DEF Offers, Startups
    <3> QED
      BY <1>1, <1>8, <1>9, <1>10, <2>5, <2>8, <3>2, StartupMoves DEF HandshakeHandlers
  <2>9. CASE wrote' = <<"dh">> /\ Expect("_handleDHAuth", 4, NoArgs)
    <3>1. At("_handleDHAuth", 4)'
      BY <2>9 DEF Expect, At
    <3>2. Startups'
      BY <1>3, <1>9, <2>2, <2>5, <2>9, <3>1 DEF Offers, Startups
    <3> QED
      BY <1>1, <1>8, <1>9, <1>10, <2>5, <2>9, <3>2, StartupMoves DEF HandshakeHandlers
  <2> QED
    BY <2>4, <2>6, <2>7, <2>8, <2>9
<1> QED
  BY <1>5, <1>11, <1>12

\* The answer to a challenge.
LEMMA ChallengesHandles ==
  ASSUME SInv, transport = "open", Startup, Challenges, ClientHandles
  PROVE  SInv'
<1>1. SessionTypes /\ InFrame /\ stream # <<>> /\ owed = 0 /\ tiles = 0
  BY DEF SInv, ClientHandles, InFrame, Startup
<1>2. phase = "challenged" /\ wrote # <<"response">>
  BY <1>1 DEF Challenges
<1>3. \/ At("_handleAuth", 4) /\ stream = <<F("SecurityType", 4, AuthVNC), F("Challenge", 16, 0)>>
      \/ At("_handleVNCAuth", 16) /\ stream = <<F("Challenge", 16, 0)>>
      \/ \E n \in Lengths : KeyExchange(n)
  BY <1>1 DEF Challenges
<1>4. expectedHandler \in {"_handleAuth", "_handleVNCAuth", "_handleDHAuth", "_handleDHAuthKey",
                           "_handleDHAuthCert"}
  BY <1>3 DEF At, KeyExchange
<1>5. /\ Handle(Head(stream).value) /\ pumping /\ ~aborted /\ stream' = Tail(stream)
      /\ packet >= expectedLen /\ Tail(stream) \in Seq(Fields) /\ UNCHANGED <<wire, server>>
  BY <1>4, StartupCalls DEF HandshakeHandlers
<1>6. phase' = "challenged" /\ NoArgs \in Args
  BY <1>2, <1>5, NoArgsOK DEF server
<1>7. version \in {0, 3003, 3007, 3008} /\ width \in Nat
  BY <1>1 DEF SessionTypes, ClientTypes
<1>8. ASSUME wrote' = <<"response">>, Expect("_handleVNCAuthResult", 4, NoArgs), Handshake,
             version' = version, width' = width, stream' = <<>>
      PROVE  SInv'
  <2>1. At("_handleVNCAuthResult", 4)'
    BY <1>8 DEF Expect, At
  <2>2. Startups'
    BY <1>6, <1>8, <2>1 DEF Challenges, Startups
  <2> QED
    BY <1>1, <1>5, <1>6, <1>7, <1>8, <2>2, StartupMoves DEF HandshakeHandlers
<1>9. CASE At("_handleAuth", 4) /\ stream = <<F("SecurityType", 4, AuthVNC), F("Challenge", 16, 0)>>
  <2>1. Head(stream).value = AuthVNC /\ stream' = <<F("Challenge", 16, 0)>>
    BY <1>5, <1>9, Heads, FieldOf
  <2>2. Auth(AuthVNC)
    BY <1>5, <1>9, <2>1, StartupDispatch DEF At
  <2>3. Expect("_handleVNCAuth", 16, NoArgs) /\ UNCHANGED session /\ Handshake
    BY <2>2 DEF Auth, AuthVNC, AuthNone
  <2>4. wrote' = wrote /\ version' = version /\ width' = width /\ At("_handleVNCAuth", 16)'
    BY <2>3 DEF session, Expect, At
  <2>5. Startups'
    BY <1>2, <1>6, <2>1, <2>4 DEF Challenges, Startups
  <2> QED
    BY <1>1, <1>5, <1>6, <1>7, <2>3, <2>4, <2>5, StartupMoves DEF HandshakeHandlers
<1>10. CASE At("_handleVNCAuth", 16) /\ stream = <<F("Challenge", 16, 0)>>
  <2>1. stream' = <<>>
    BY <1>5, <1>10, Heads
  <2>2. VNCAuth
    BY <1>5, <1>10, StartupDispatch DEF At
  <2>3. CASE /\ wrote' = <<"response">> /\ Expect("_handleVNCAuthResult", 4, NoArgs)
             /\ UNCHANGED <<version, width>> /\ Handshake
    BY <1>8, <2>1, <2>3
  <2>4. CASE Raise /\ UNCHANGED update
    <3>1. Fails
      BY <1>1, <2>4 DEF Fails, SessionTypes, ClientTypes, update
    <3> QED
      BY <1>5, <3>1, FailsOK
  <2>5. CASE /\ ClientConnectionFailed("auth") /\ LoseConnection
             /\ Expect("_handleVNCAuthResult", 4, NoArgs) /\ UNCHANGED <<session, update, refresh>>
    <3>1. transport' = "closing"
      BY <2>5 DEF LoseConnection
    <3>2. /\ packet \in Nat /\ expectedLen \in Nat
      BY <1>1 DEF SessionTypes, ClientTypes
    <3>3. packet' \in Nat
      BY <1>5, <2>5, <3>2, ExpectTakes
    <3>4. /\ expectedLen' \in Nat /\ args' \in Args /\ aborted' = aborted
          /\ pumping' = (packet' >= expectedLen') /\ expectedHandler' = "_handleVNCAuthResult"
      BY <1>6, <2>5 DEF Expect
    <3> QED
      BY <1>1, <1>2, <1>5, <2>1, <2>5, <3>1, <3>3, <3>4, ClosesOK
  <2> QED
    BY <2>2, <2>3, <2>4, <2>5 DEF VNCAuth
<1>11. CASE \E n \in Lengths : KeyExchange(n)
  <2>1. PICK n \in Lengths : KeyExchange(n)
    BY <1>11
  <2>2. n \in Nat /\ Of(n) \in Args /\ Of(n).w = n
    BY NoArgsOK, SizeAssumption
  <2>3. CASE At("_handleDHAuth", 4)
    <3>1. stream = <<F("DHParameters", 4, n), F("DHModulus", n, 0), F("DHPublicKey", n, 0)>>
      BY <2>1, <2>3 DEF KeyExchange, At
    <3>2. Head(stream).value = n /\ stream' = <<F("DHModulus", n, 0), F("DHPublicKey", n, 0)>>
      BY <1>5, <3>1, Heads, FieldOf
    <3>3. DHAuth(n)
      BY <1>5, <2>3, <3>2, StartupDispatch DEF At
    <3>4. Expect("_handleDHAuthKey", n, Of(n)) /\ UNCHANGED session /\ Handshake
      BY <3>3 DEF DHAuth
    <3>5. wrote' = wrote /\ version' = version /\ width' = width
      BY <3>4 DEF session
    <3>6. At("_handleDHAuthKey", n)' /\ args'.w = n
      BY <2>2, <3>4 DEF Expect, At
    <3>7. KeyExchange(n)'
      BY <3>2, <3>6 DEF KeyExchange
    <3>8. Startups'
      BY <1>2, <1>6, <3>5, <3>7 DEF Challenges, Startups
    <3> QED
      BY <1>1, <1>5, <1>7, <2>2, <3>4, <3>5, <3>8, StartupMoves DEF HandshakeHandlers
  <2>4. CASE At("_handleDHAuthKey", n)
    <3>1. stream = <<F("DHModulus", n, 0), F("DHPublicKey", n, 0)>> /\ args.w = n
      BY <2>1, <2>4 DEF KeyExchange, At
    <3>2. stream' = <<F("DHPublicKey", n, 0)>>
      BY <1>5, <3>1, Heads
    <3>3. DHAuthKey
      BY <1>5, <2>4, StartupDispatch DEF At
    <3>4. Expect("_handleDHAuthCert", n, NoArgs) /\ UNCHANGED session /\ Handshake
      BY <3>1, <3>3 DEF DHAuthKey
    <3>5. wrote' = wrote /\ version' = version /\ width' = width
      BY <3>4 DEF session
    <3>6. At("_handleDHAuthCert", n)'
      BY <3>4 DEF Expect, At
    <3>7. KeyExchange(n)'
      BY <3>2, <3>6 DEF KeyExchange
    <3>8. Startups'
      BY <1>2, <1>6, <3>5, <3>7 DEF Challenges, Startups
    <3> QED
      BY <1>1, <1>5, <1>6, <1>7, <2>2, <3>4, <3>5, <3>8, StartupMoves DEF
             HandshakeHandlers
  <2>5. CASE At("_handleDHAuthCert", n)
    <3>1. stream = <<F("DHPublicKey", n, 0)>>
      BY <2>1, <2>5 DEF KeyExchange, At
    <3>2. stream' = <<>>
      BY <1>5, <3>1, Heads
    <3>3. DHAuthCert /\ transport' # "closed"
      BY <1>5, <2>5, StartupDispatch DEF At
    <3> QED
      BY <1>8, <3>2, <3>3 DEF DHAuthCert, Raise
  <2> QED
    BY <2>1, <2>3, <2>4, <2>5 DEF KeyExchange
<1> QED
  BY <1>3, <1>9, <1>10, <1>11

\* The client is let in.
LEMMA AcceptsHandles ==
  ASSUME SInv, transport = "open", Startup, Accepts, ClientHandles
  PROVE  SInv'
<1>1. SessionTypes /\ InFrame /\ stream # <<>>
  BY DEF SInv, ClientHandles, InFrame
<1>2. /\ phase = "accepted"
      /\ \/ At("_handleAuth", 4) /\ stream = <<F("SecurityType", 4, AuthNone)>>
         \/ At("_handleVNCAuthResult", 4) /\ stream = <<F("SecurityResult", 4, 0)>>
  BY <1>1 DEF Accepts
<1>3. expectedHandler \in {"_handleAuth", "_handleVNCAuthResult"}
  BY <1>2 DEF At
<1>4. /\ Handle(Head(stream).value) /\ pumping /\ stream' = Tail(stream)
      /\ packet >= expectedLen /\ UNCHANGED <<wire, server>>
  BY <1>3, StartupCalls DEF HandshakeHandlers
<1>5. stream' = <<>> /\ phase' = "accepted"
  BY <1>2, <1>4, Heads DEF server
<1>6. DoClientInitialization(<<>>) /\ UNCHANGED <<version, width>> /\ Handshake
  <2>1. CASE At("_handleAuth", 4) /\ stream = <<F("SecurityType", 4, AuthNone)>>
    <3>1. Head(stream).value = AuthNone
      BY <2>1, Heads, FieldOf
    <3>2. Auth(AuthNone)
      BY <1>4, <2>1, <3>1, StartupDispatch DEF At
    <3> QED
      BY <3>2 DEF Auth, AuthVNC, AuthNone
  <2>2. CASE At("_handleVNCAuthResult", 4) /\ stream = <<F("SecurityResult", 4, 0)>>
    <3>1. Head(stream).value = 0
      BY <2>2, Heads, FieldOf
    <3>2. VNCAuthResult(0)
      BY <1>4, <2>2, <3>1, StartupDispatch DEF At
    <3> QED
      BY <3>2 DEF VNCAuthResult
  <2> QED
    BY <1>2, <2>1, <2>2
<1>7. wrote' \in Inits /\ Expect("_handleServerInit", 24, NoArgs)
  BY <1>6, WrittenApart DEF DoClientInitialization
<1>8. At("_handleServerInit", 24)'
  BY <1>7 DEF Expect, At
<1>9. Startups'
  BY <1>5, <1>7, <1>8 DEF Accepts, Startups
<1>10. "_handleServerInit" \in HandshakeHandlers \cup InitHandlers /\ NoArgs \in Args
  BY NoArgsOK DEF InitHandlers
<1>11. version' \in {0, 3003, 3007, 3008} /\ width' \in Nat
  BY <1>1, <1>6 DEF SessionTypes, ClientTypes
<1> QED
  BY <1>1, <1>4, <1>6, <1>7, <1>9, <1>10, <1>11, StartupMoves

\* The client is turned away, and told why.
LEMMA RefusesHandles ==
  ASSUME SInv, transport = "open", Startup, Refuses, ClientHandles
  PROVE  SInv'
<1>1. SessionTypes /\ InFrame /\ stream # <<>> /\ owed = 0 /\ tiles = 0 /\ phase = "refused"
  BY DEF SInv, ClientHandles, InFrame, Startup, Refuses
<1>2. expectedHandler \in {"_handleNumberSecurityTypes", "_handleAuth", "_handleVNCAuthResult",
                           "_handleConnFailed", "_handleAuthFailed", "_handleConnMessage",
                           "_handleAuthFailedMessage"}
  BY DEF Refuses, RefusesWith, At
<1>3. /\ Handle(Head(stream).value) /\ pumping /\ stream' = Tail(stream)
      /\ packet >= expectedLen /\ UNCHANGED <<wire, server>>
  BY <1>2, StartupCalls DEF HandshakeHandlers
<1>4. phase' = "refused" /\ NoArgs \in Args
  BY <1>1, <1>3, NoArgsOK DEF server
<1>5. version \in {0, 3003, 3007, 3008} /\ width \in Nat
  BY <1>1 DEF SessionTypes, ClientTypes
<1>6. ASSUME NEW h \in {"_handleConnFailed", "_handleAuthFailed", "_handleConnMessage",
                        "_handleAuthFailedMessage"},
             NEW k \in Nat, Expect(h, k, NoArgs), UNCHANGED session, Handshake,
             NEW n \in Lengths, RefusesWith(n)'
      PROVE  SInv'
  <2>1. version' = version /\ width' = width
    BY <1>6 DEF session
  <2>2. Startups'
    BY <1>4, <1>6 DEF Refuses, Startups
  <2>3. h \in HandshakeHandlers \cup InitHandlers
    BY DEF HandshakeHandlers
  <2> QED
    BY <1>1, <1>3, <1>4, <1>5, <1>6, <2>1, <2>2, <2>3, StartupMoves
<1>7. CASE /\ At("_handleVNCAuthResult", 4) /\ version < 3008
           /\ \E r \in {1, 2} : stream = <<F("SecurityResult", 4, r)>>
  <2>1. PICK r \in {1, 2} : stream = <<F("SecurityResult", 4, r)>>
    BY <1>7
  <2>2. Head(stream).value = r /\ stream' = <<>>
    BY <1>3, <2>1, Heads, FieldOf
  <2>3. VNCAuthResult(r)
    BY <1>3, <1>7, <2>2, StartupDispatch DEF At
  <2>4. GiveUp("auth") /\ UNCHANGED update
    BY <1>5, <1>7, <2>3 DEF VNCAuthResult
  <2> QED
    BY <1>1, <1>3, <1>7, <2>2, <2>4, GiveUpOn DEF At
<1>8. CASE \E n \in Lengths : RefusesWith(n)
  <2>1. PICK n \in Lengths : RefusesWith(n)
    BY <1>8
  <2>2. n \in Nat
    BY SizeAssumption
  <2> DEFINE reason == <<F("ReasonLength", 4, n), F("Reason", n, 0)>>
  <2>3. CASE At("_handleNumberSecurityTypes", 1)
    <3>1. stream = <<F("NumberOfSecurityTypes", 1, 0), F("ReasonLength", 4, n), F("Reason", n, 0)>>
      BY <2>1, <2>3 DEF RefusesWith, At
    <3>2. Head(stream).value = 0 /\ stream' = reason
      BY <1>3, <3>1, Heads, FieldOf
    <3>3. NumberSecurityTypes(0)
      BY <1>3, <2>3, <3>2, StartupDispatch DEF At
    <3>4. Expect("_handleConnFailed", 4, NoArgs) /\ UNCHANGED session /\ Handshake
      BY <3>3 DEF NumberSecurityTypes
    <3>5. RefusesWith(n)'
      BY <3>2, <3>4 DEF RefusesWith, Expect, At
    <3> QED
      BY <1>6, <3>4, <3>5
  <2>4. CASE At("_handleAuth", 4)
    <3>1. stream = <<F("SecurityType", 4, 0), F("ReasonLength", 4, n), F("Reason", n, 0)>>
      BY <2>1, <2>4 DEF RefusesWith, At
    <3>2. Head(stream).value = 0 /\ stream' = reason
      BY <1>3, <3>1, Heads, FieldOf
    <3>3. Auth(0)
      BY <1>3, <2>4, <3>2, StartupDispatch DEF At
    <3>4. Expect("_handleConnFailed", 4, NoArgs) /\ UNCHANGED session /\ Handshake
      BY <3>3 DEF Auth, AuthNone, AuthVNC
    <3>5. RefusesWith(n)'
      BY <3>2, <3>4 DEF RefusesWith, Expect, At
    <3> QED
      BY <1>6, <3>4, <3>5
  <2>5. CASE At("_handleVNCAuthResult", 4)
    <3>1. PICK r \in {1, 2} :
            stream = <<F("SecurityResult", 4, r), F("ReasonLength", 4, n), F("Reason", n, 0)>>
      BY <2>1, <2>5 DEF RefusesWith, At
    <3>2. version >= 3008
      BY <2>1, <2>5 DEF RefusesWith, At
    <3>3. Head(stream).value = r /\ stream' = reason
      BY <1>3, <3>1, Heads, FieldOf
    <3>4. VNCAuthResult(r)
      BY <1>3, <2>5, <3>3, StartupDispatch DEF At
    <3>5. Expect("_handleAuthFailed", 4, NoArgs) /\ UNCHANGED session /\ Handshake
      BY <1>5, <3>2, <3>4 DEF VNCAuthResult
    <3>6. RefusesWith(n)'
      BY <3>3, <3>5 DEF RefusesWith, Expect, At
    <3> QED
      BY <1>6, <3>5, <3>6
  <2>6. CASE At("_handleConnFailed", 4) \/ At("_handleAuthFailed", 4)
    <3>1. stream = reason
      BY <2>1, <2>6 DEF RefusesWith, At
    <3>2. Head(stream).value = n /\ stream' = <<F("Reason", n, 0)>>
      BY <1>3, <3>1, Heads, FieldOf
    <3>3. CASE At("_handleConnFailed", 4)
      <4>1. ConnFailed(n)
        BY <1>3, <3>2, <3>3, StartupDispatch DEF At
      <4>2. Expect("_handleConnMessage", n, NoArgs) /\ UNCHANGED session /\ Handshake
        BY <4>1 DEF ConnFailed
      <4>3. RefusesWith(n)'
        BY <3>2, <4>2 DEF RefusesWith, Expect, At
      <4> QED
        BY <1>6, <2>2, <4>2, <4>3
    <3>4. CASE At("_handleAuthFailed", 4)
      <4>1. AuthFailed(n)
        BY <1>3, <3>2, <3>4, StartupDispatch DEF At
      <4>2. Expect("_handleAuthFailedMessage", n, NoArgs) /\ UNCHANGED session /\ Handshake
        BY <4>1 DEF AuthFailed
      <4>3. RefusesWith(n)'
        BY <3>2, <4>2 DEF RefusesWith, Expect, At
      <4> QED
        BY <1>6, <2>2, <4>2, <4>3
    <3> QED
      BY <2>6, <3>3, <3>4
  <2>7. CASE At("_handleConnMessage", n) \/ At("_handleAuthFailedMessage", n)
    <3>1. stream = <<F("Reason", n, 0)>>
      BY <2>1, <2>7 DEF RefusesWith, At
    <3>2. stream' = <<>>
      BY <1>3, <3>1, Heads
    <3>3. (GiveUp("protocol") \/ GiveUp("auth")) /\ UNCHANGED update
      BY <1>3, <2>7, StartupDispatch DEF At, ConnMessage, AuthFailedMessage
    <3> QED
      BY <1>1, <1>3, <2>7, <3>2, <3>3, GiveUpOn DEF At
  <2> QED
    BY <2>1, <2>3, <2>4, <2>5, <2>6, <2>7 DEF RefusesWith
<1> QED
  BY <1>7, <1>8 DEF Refuses

\* ServerInit and the desktop's name end the startup.
LEMMA StartsHandles ==
  ASSUME SInv, transport = "open", Startup, Starts, ClientHandles
  PROVE  SInv'
<1>1. SessionTypes /\ InFrame /\ phase = "running" /\ wrote # <<"encodings">>
  BY DEF SInv, ClientHandles, Starts
<1>2. PICK n \in Lengths :
        \/ /\ At("_handleServerInit", 24)
           /\ stream = <<F("ServerInit", 24, <<desktop, n>>), F("Name", n, 0)>>
        \/ At("_handleServerName", n) /\ stream = <<F("Name", n, 0)>> /\ width = desktop
  BY DEF Starts
<1>3. n \in Nat /\ desktop \in Nat /\ NoArgs \in Args
  BY <1>1, SizeAssumption, NoArgsOK DEF SessionTypes, ServerTypes
<1>4. expectedHandler \in {"_handleServerInit", "_handleServerName"}
  BY <1>2 DEF At
<1>5. /\ Handle(Head(stream).value) /\ pumping /\ stream' = Tail(stream)
      /\ packet >= expectedLen /\ Tail(stream) \in Seq(Fields) /\ UNCHANGED <<wire, server>>
  BY <1>4, StartupCalls DEF InitHandlers
<1>6. CASE At("_handleServerInit", 24)
  <2>1. stream = <<F("ServerInit", 24, <<desktop, n>>), F("Name", n, 0)>>
    BY <1>2, <1>6 DEF At
  <2>2. Head(stream).value = <<desktop, n>> /\ stream' = <<F("Name", n, 0)>>
    BY <1>5, <2>1, Heads, FieldOf
  <2>3. ServerInit(desktop, n)
    <3>1. Handle(<<desktop, n>>)
      BY <1>5, <2>2
    <3>2. ServerInit(<<desktop, n>>[1], <<desktop, n>>[2])
      BY <1>6, <3>1, StartupDispatch DEF At
    <3> QED
      BY <3>2
  <2>4. /\ width' = desktop /\ Expect("_handleServerName", n, NoArgs) /\ version' = version
        /\ wrote' = wrote /\ Handshake
    BY <2>3 DEF ServerInit
  <2>5. At("_handleServerName", n)' /\ desktop' = desktop /\ phase' = phase
    BY <1>5, <2>4 DEF Expect, At, server
  <2>6. Startups'
    BY <1>1, <2>2, <2>4, <2>5 DEF Starts, Startups
  <2>7. "_handleServerName" \in HandshakeHandlers \cup InitHandlers
    BY DEF InitHandlers
  <2>8. version' \in {0, 3003, 3007, 3008} /\ width' \in Nat
    BY <1>1, <1>3, <2>4 DEF SessionTypes, ClientTypes
  <2> QED
    BY <1>1, <1>3, <1>5, <2>4, <2>6, <2>7, <2>8, StartupMoves
<1>7. CASE At("_handleServerName", n)
  <2>1. stream = <<F("Name", n, 0)>> /\ width = desktop
    BY <1>2, <1>7 DEF At
  <2>2. stream' = <<>>
    BY <1>5, <2>1, Heads
  <2>3. ServerName /\ UNCHANGED update
    BY <1>5, <1>7, StartupDispatch DEF At, ServerName
  <2>4. CASE Raise
    <3>1. Fails
      BY <1>1, <2>3, <2>4 DEF Fails, SessionTypes, ClientTypes, update
    <3> QED
      BY <1>5, <3>1, FailsOK
  <2>5. CASE /\ ~RequestedFormatUsable /\ ClientConnectionFailed("protocol")
             /\ transport' = "closed" /\ pumping' = FALSE
             /\ UNCHANGED <<expectedHandler, expectedLen, args, packet, aborted>>
             /\ UNCHANGED <<session, refresh>>
    <3>1. factoryDeferred' \in {"pending", "made", "failed"}
      BY <1>1, <2>5 DEF SessionTypes, ClientTypes, ClientConnectionFailed
    <3>2. pumping' \in BOOLEAN /\ aborted' \in BOOLEAN
      <4>1. aborted \in BOOLEAN
        BY <1>1 DEF SessionTypes, ClientTypes
      <4>2. aborted' \in BOOLEAN
        BY <2>5, <4>1
      <4>3. pumping' \in BOOLEAN
        BY <2>5
      <4> QED
        BY <4>2, <4>3
    <3>3. ClientTypes'
      BY <1>1, <2>3, <2>5, <3>1, <3>2
         DEF SessionTypes, ClientTypes, session, refresh, update
    <3>4. ServerTypes'
      BY <1>1, <1>5 DEF SessionTypes, ServerTypes, server
    <3>5. Blocks' /\ InStep' /\ RequestOutstanding'
      <4>1. Blocks /\ aborted' = aborted
        BY <2>5 DEF SInv
      <4> QED
        BY <2>5, <4>1 DEF Blocks, InStep, RequestOutstanding
    <3>6. Painting'
      BY <1>5, <2>5 DEF SInv, Painting, refresh, server
    <3> QED
      BY <2>5, <3>3, <3>4, <3>5, <3>6 DEF SInv, SessionTypes, Benign
  <2>6. CASE /\ factoryDeferred' = "made" /\ wrote' = <<"encodings">>
             /\ \E d \in BOOLEAN : deferred' = d /\ requested' = d
             /\ Expect("_handleConnection", 1, NoArgs)
             /\ UNCHANGED <<version, width, lastRefresh, reported, transport>>
    <3>1. PICK d \in BOOLEAN : deferred' = d /\ requested' = d
      BY <2>6
    <3>2. packet \in Nat /\ expectedLen \in Nat /\ wire \in Nat
      BY <1>1 DEF SessionTypes, ClientTypes, ServerTypes
    <3>3. /\ packet' \in Nat /\ packet' = packet - expectedLen /\ pumping' \in BOOLEAN
          /\ pumping' => packet' >= expectedLen'
      <4>1. Expect("_handleConnection", 1, NoArgs) /\ 1 \in Nat
        BY <2>6
      <4>2. packet' \in Nat /\ pumping' \in BOOLEAN /\ (pumping' => packet' >= expectedLen')
        BY <1>5, <3>2, <4>1, ExpectTakes
      <4>3. packet' = packet - expectedLen
        BY <4>1 DEF Expect
      <4> QED
        BY <4>2, <4>3
    <3>4. /\ expectedHandler' = "_handleConnection" /\ expectedLen' = 1 /\ args' = NoArgs
          /\ aborted' = aborted
      BY <2>6 DEF Expect
    <3>5. deferred' \in BOOLEAN /\ requested' \in BOOLEAN /\ (deferred' => requested')
      <4>1. CASE d = TRUE
        BY <3>1, <4>1
      <4>2. CASE d = FALSE
        BY <3>1, <4>2
      <4> QED
        BY <4>1, <4>2
    <3>6. rectangles' = 0 /\ rectanglePos' = 0 /\ painted' = painted /\ owed = 0 /\ tiles = 0
      BY <2>3 DEF Startup, update
    <3>7. ClientTypes'
      BY <1>1, <1>3, <2>6, <3>3, <3>4, <3>5, <3>6 DEF SessionTypes, ClientTypes
    <3>8. ServerTypes'
      BY <1>1, <1>5 DEF SessionTypes, ServerTypes, server
    <3>9. aborted = FALSE
      BY <1>1 DEF SInv, Blocks, SessionTypes, ClientTypes
    <3>10. Blocks'
      BY <2>6, <3>3, <3>4, <3>9 DEF Blocks
    <3>11. Serves'
      <4>1. Here' = Place("_handleConnection", 1, NoArgs, 0)
        BY <3>4, <3>6 DEF Here
      <4>2. Between(0) \in Places /\ Between(0) = Place("_handleConnection", 1, NoArgs, 0)
        BY BetweenPlace
      <4>3. Path(uses', stream', Here', Between(0))
        BY <2>2, <4>1, <4>2, PathNowhere
      <4>4. /\ uses' = uses /\ phase' = "running" /\ owed' = 0 /\ tiles' = 0 /\ desktop' = desktop
            /\ width' = desktop
        BY <1>1, <1>5, <2>1, <2>6, <3>6 DEF server
      <4>5. ServerAt(Between(0))'
        BY <4>4 DEF ServerAt, Between
      <4> QED
        BY <1>3, <2>6, <4>3, <4>4, <4>5 DEF Serves
    <3>12. Total(stream', packet' + wire')
      <4>1. Total(stream, packet + wire) /\ packet + wire \in Nat
        BY <3>2 DEF SInv, InStep
      <4>2. stream \in Seq(Fields) /\ stream # <<>> /\ Head(stream).len = expectedLen
        BY <1>1 DEF SessionTypes, ServerTypes, InFrame
      <4>3. Total(Tail(stream), (packet + wire) - expectedLen)
        BY <4>1, <4>2, TotalShrinks
      <4>4. (packet + wire) - expectedLen = packet' + wire'
        BY <1>5, <3>2, <3>3
      <4> QED
        BY <1>5, <4>3, <4>4
    <3>13. InStep'
      <4>1. transport' = "open" /\ reported' = "none"
        BY <2>6 DEF SInv, InStep
      <4> QED
        BY <3>11, <3>12, <4>1 DEF InStep
    <3>14. RequestOutstanding'
      BY <3>5 DEF RequestOutstanding
    <3>15. Painting'
      <4>1. Paints'
        BY <3>4, <3>6 DEF Paints, HextileHandlers
      <4> QED
        BY <1>5, <2>6, <4>1 DEF SInv, Painting, server
    <3>16. Benign => ServerUnderstood'
      BY <1>5, <2>6, <3>4 DEF SInv, ServerUnderstood, server
    <3> QED
      BY <3>7, <3>8, <3>10, <3>13, <3>14, <3>15, <3>16 DEF SInv, SessionTypes
  <2> QED
    BY <2>3, <2>4, <2>5, <2>6 DEF ServerName
<1> QED
  BY <1>2, <1>6, <1>7

\* Handler calls in the startup, and none once the client has given up.
LEMMA HandlesOK ==
  ASSUME SInv, Sizes, ClientHandles PROVE SInv'
<1>1. CASE transport = "open"
  <2>1. Startup \/ Serves
    BY <1>1 DEF SInv, InStep
  <2>2. CASE Startup
    BY <1>1, <2>2, GreetsHandles, OffersHandles, ChallengesHandles,
           AcceptsHandles, RefusesHandles,
       StartsHandles DEF Startup
  <2>3. CASE Serves
    BY <1>1, <2>3, ServesHandles
  <2> QED
    BY <2>1, <2>2, <2>3
<1>2. CASE transport # "open"
  <2>1. stream # <<>>
    BY DEF ClientHandles, InFrame
  <2>2. pumping
    BY HandlesPump
  <2>3. transport \in {"open", "closing", "closed"}
    BY DEF SInv, SessionTypes, ClientTypes
  <2>4. GaveUp
    BY <1>2, <2>2, <2>3 DEF SInv, Blocks, InStep
  <2> QED
    BY <2>1, <2>4 DEF GaveUp
<1> QED
  BY <1>1, <1>2

-----------------------------------------------------------------------------
(* The reactor.                                                            *)

\* What the handlers of the startup take their blocks to be.
LEMMA StartupReads ==
  /\ Reads("_handleInitial") = "ProtocolVersion"
  /\ Reads("_handleNumberSecurityTypes") = "NumberOfSecurityTypes"
  /\ Reads("_handleSecurityTypes") = "SecurityTypes" /\ Reads("_handleAuth") = "SecurityType"
  /\ Reads("_handleVNCAuth") = "Challenge" /\ Reads("_handleDHAuth") = "DHParameters"
  /\ Reads("_handleDHAuthKey") = "DHModulus" /\ Reads("_handleDHAuthCert") = "DHPublicKey"
  /\ Reads("_handleVNCAuthResult") = "SecurityResult"
  /\ Reads("_handleConnFailed") = "ReasonLength" /\ Reads("_handleAuthFailed") = "ReasonLength"
  /\ Reads("_handleConnMessage") = "Reason" /\ Reads("_handleAuthFailedMessage") = "Reason"
  /\ Reads("_handleServerInit") = "ServerInit" /\ Reads("_handleServerName") = "Name"
BY DEF Reads

\* A place where the client waits for nothing but what comes next.
LEMMA AtInFrame ==
  ASSUME NEW h, NEW n, NEW v, NEW f, NEW g, At(h, n),
         \/ stream = <<F(Reads(h), n, v)>>
         \/ stream = <<F(Reads(h), n, v), f>>
         \/ stream = <<F(Reads(h), n, v), f, g>>
  PROVE  InFrame
<1>1. Head(stream) = F(Reads(h), n, v)
  BY Heads
<1>2. stream # <<>>
  <2>1. \A x, y, z : <<x>> # <<>> /\ <<x, y>> # <<>> /\ <<x, y, z>> # <<>>
    OBVIOUS
  <2> QED
    BY <2>1
<1>3. Head(stream).kind = Reads(h) /\ Head(stream).len = n
  BY <1>1, FieldOf
<1> QED
  BY <1>2, <1>3 DEF InFrame, At

\* A client in the startup waits for the first field under way; with none under
\* way it has no block either.
LEMMA StartupFramed ==
  ASSUME Startup
  PROVE  InFrame \/ (stream = <<>> /\ expectedLen # 0)
<1> USE StartupReads, AtInFrame
<1>1. CASE Greets
  <2>1. CASE stream # <<>>
    <3>1. /\ At("_handleInitial", 12)
          /\ \E v \in ServerVersions : stream = <<F("ProtocolVersion", 12, v)>>
      BY <1>1, <2>1 DEF Greets
    <3> QED
      BY <3>1
  <2>2. CASE stream = <<>>
    BY <1>1, <2>2 DEF Greets, At
  <2> QED
    BY <2>1, <2>2
<1>2. CASE Offers
  <2>1. CASE \E types : OfferOf(types)
    BY <2>1 DEF OfferOf
  <2>2. CASE ~\E types : OfferOf(types)
    BY <1>2, <2>2 DEF Offers, At
  <2> QED
    BY <2>1, <2>2
<1>3. CASE Challenges
  <2>1. CASE \E n \in Lengths : KeyExchange(n)
    BY <2>1 DEF KeyExchange
  <2>2. CASE ~\E n \in Lengths : KeyExchange(n)
    <3>1. \/ /\ At("_handleAuth", 4)
             /\ stream = <<F("SecurityType", 4, AuthVNC), F("Challenge", 16, 0)>>
          \/ At("_handleVNCAuth", 16) /\ stream = <<F("Challenge", 16, 0)>>
          \/ At("_handleVNCAuthResult", 4) /\ stream = <<>>
      BY <1>3, <2>2 DEF Challenges
    <3>2. CASE At("_handleVNCAuthResult", 4) /\ stream = <<>>
      BY <3>2 DEF At
    <3> QED
      BY <3>1, <3>2
  <2> QED
    BY <2>1, <2>2
<1>4. CASE Accepts
  <2>1. CASE stream = <<>>
    <3>1. expectedLen \in {4, 24}
      BY <1>4 DEF Accepts, At
    <3> QED
      BY <2>1, <3>1
  <2>2. CASE stream # <<>>
    BY <1>4, <2>2 DEF Accepts
  <2> QED
    BY <2>1, <2>2
<1>5. CASE Refuses
  <2>1. CASE \E n \in Lengths : RefusesWith(n)
    <3>1. PICK n \in Lengths : RefusesWith(n)
      BY <2>1
    <3>2. CASE At("_handleVNCAuthResult", 4)
      <4>1. PICK r \in {1, 2} :
              stream = <<F("SecurityResult", 4, r), F("ReasonLength", 4, n), F("Reason", n, 0)>>
        BY <3>1, <3>2 DEF RefusesWith, At
      <4> QED
        BY <3>2, <4>1
    <3>3. CASE At("_handleNumberSecurityTypes", 1) \/ At("_handleAuth", 4)
      BY <3>1, <3>3 DEF RefusesWith, At
    <3>4. CASE At("_handleConnFailed", 4) \/ At("_handleAuthFailed", 4)
      <4>1. stream = <<F("ReasonLength", 4, n), F("Reason", n, 0)>>
        BY <3>1, <3>4 DEF RefusesWith, At
      <4> QED
        BY <3>4, <4>1
    <3>5. CASE At("_handleConnMessage", n) \/ At("_handleAuthFailedMessage", n)
      <4>1. stream = <<F("Reason", n, 0)>>
        BY <3>1, <3>5 DEF RefusesWith, At
      <4> QED
        BY <3>5, <4>1
    <3> QED
      BY <3>1, <3>2, <3>3, <3>4, <3>5 DEF RefusesWith
  <2>2. CASE ~\E n \in Lengths : RefusesWith(n)
    <3>1. /\ At("_handleVNCAuthResult", 4)
          /\ \E r \in {1, 2} : stream = <<F("SecurityResult", 4, r)>>
      BY <1>5, <2>2 DEF Refuses
    <3>2. PICK r \in {1, 2} : stream = <<F("SecurityResult", 4, r)>>
      BY <3>1
    <3> QED
      BY <3>1, <3>2
  <2> QED
    BY <2>1, <2>2
<1>6. CASE Starts
  BY <1>6 DEF Starts
<1> QED
  BY <1>1, <1>2, <1>3, <1>4, <1>5, <1>6 DEF Startup

\* The invariant implies that client and server agree on the framing.
LEMMA Framed ==
  ASSUME SInv PROVE FramingAgreed
<1> SUFFICES ASSUME pumping, transport = "open", ~InFrame
             PROVE  expectedHandler = "_handleInitial" /\ packet < 12
  BY DEF FramingAgreed
<1>1. /\ packet \in Nat /\ expectedLen \in Nat /\ wire \in Nat /\ stream \in Seq(Fields)
      /\ Total(stream, packet + wire)
      /\ Startup \/ Serves
      /\ expectedHandler # "_handleInitial" => packet >= expectedLen
  BY DEF SInv, SessionTypes, ClientTypes, ServerTypes, InStep, Blocks
<1>2. CASE Startup
  <2>1. stream = <<>> /\ expectedLen # 0
    BY <1>2, StartupFramed
  <2>2. packet + wire = 0
    BY <1>1, <2>1, TotalEnds
  <2> QED
    BY <1>1, <2>1, <2>2
<1>3. CASE Serves
  <2>1. PICK e : Path(uses, stream, Here, e) /\ ServerAt(e)
    BY <1>3 DEF Serves
  <2>2. CASE stream # <<>>
    <3>1. Fits(uses, Here, Head(stream))
      BY <1>1, <2>1, <2>2, PathShrinks
    <3> QED
      BY <2>2, <3>1, HereFields DEF Fits, InFrame
  <2>3. CASE stream = <<>>
    <3>1. Here = e
      BY <2>1, <2>3, PathEnds
    <3>2. e.n # 0 /\ e.h # "_handleInitial"
      <4>1. owed \in Nat
        BY DEF SInv, SessionTypes, ServerTypes
      <4> QED
        BY <2>1, <4>1, BetweenFields DEF ServerAt
    <3>3. packet + wire = 0
      BY <1>1, <2>3, TotalEnds
    <3> QED
      BY <1>1, <3>1, <3>2, <3>3, HereFields
  <2> QED
    BY <2>2, <2>3
<1> QED
  BY <1>1, <1>2, <1>3

\* Where client and server are does not depend on what is buffered.
Waiting ==
  <<expectedHandler, expectedLen, args, version, width, wrote, rectangles, rectanglePos,
    stream, uses, phase, owed, tiles, desktop>>

\* Steps that leave these alone leave the two where they are.
LEMMA Undisturbed ==
  ASSUME UNCHANGED Waiting
  PROVE  /\ Serves => Serves'
         /\ Startup /\ factoryDeferred' = factoryDeferred /\ ~deferred' => Startup'
         /\ GaveUp /\ reported' # "none" => GaveUp'
<1>1. Serves => Serves'
  <2>1. Here' = Here
    BY DEF Here, Waiting
  <2>2. \A e : ServerAt(e)' <=> ServerAt(e)
    BY DEF ServerAt, Between, Waiting
  <2> QED
    BY <2>1, <2>2 DEF Serves, Waiting
<1>2. \A h, n : At(h, n) <=> At(h, n)'
  BY DEF At, Waiting
<1>3. /\ stream' = stream /\ phase' = phase /\ wrote' = wrote /\ version' = version /\ width' = width
      /\ desktop' = desktop /\ args' = args
  BY DEF Waiting
<1>4. Greets => Greets'
  BY <1>3 DEF Greets, At, Waiting
<1>5. Offers => Offers'
  <2>1. \A types : OfferOf(types) => OfferOf(types)'
    BY <1>3 DEF OfferOf, At, Waiting
  <2> QED
    BY <1>3, <2>1 DEF Offers, At, Waiting
<1>6. Challenges => Challenges'
  <2>1. \A n : KeyExchange(n) => KeyExchange(n)'
    BY <1>3 DEF KeyExchange, At, Waiting
  <2> QED
    BY <1>3, <2>1 DEF Challenges, At, Waiting
<1>7. Accepts => Accepts'
  BY <1>3 DEF Accepts, At, Waiting
<1>8. Refuses => Refuses'
  <2>1. \A n : RefusesWith(n) => RefusesWith(n)'
    BY <1>3 DEF RefusesWith, At, Waiting
  <2> QED
    BY <1>3, <2>1 DEF Refuses, At, Waiting
<1>9. Starts => Starts'
  BY <1>3 DEF Starts, At, Waiting
<1>10. Startup /\ factoryDeferred' = factoryDeferred /\ ~deferred' => Startup'
  BY <1>4, <1>5, <1>6, <1>7, <1>8, <1>9 DEF Startup, Waiting
<1>11. GaveUp /\ reported' # "none" => GaveUp'
  BY <1>3 DEF GaveUp, Waiting
<1> QED
  BY <1>1, <1>10, <1>11

\* A chunk arrives.
LEMMA DeliverOK ==
  ASSUME SInv, NEW n \in Chunks, Deliver(n) PROVE SInv'
<1>1. SessionTypes /\ Blocks /\ InStep /\ RequestOutstanding /\ Painting
  BY DEF SInv
<1>2. n \in Nat /\ packet \in Nat /\ wire \in Nat /\ expectedLen \in Nat
  BY <1>1, SizeAssumption DEF SessionTypes, ClientTypes, ServerTypes
<1>3. /\ n <= wire /\ packet' = packet + n /\ wire' = wire - n /\ ~aborted /\ transport # "closed"
      /\ UNCHANGED <<expectedHandler, expectedLen, args, aborted>>
      /\ UNCHANGED <<session, update, refresh, outcome, transport, stream, server>>
      /\ pumping' = (expectedHandler = "_handleInitial" \/ HasBlock(packet + n))
  BY DEF Deliver, DataReceived
<1>4. pumping' \in BOOLEAN
  BY <1>3 DEF HasBlock
<1>5. packet' \in Nat /\ wire' \in Nat /\ packet' + wire' = packet + wire
  BY <1>2, <1>3
<1>6. ClientTypes'
  BY <1>1, <1>3, <1>4, <1>5 DEF SessionTypes, ClientTypes, session, update,
         refresh, outcome
<1>7. ServerTypes'
  BY <1>1, <1>3, <1>5 DEF SessionTypes, ServerTypes, server
<1>8. Blocks'
  <2>1. pumping' /\ expectedHandler' # "_handleInitial" => packet' >= expectedLen'
    BY <1>3 DEF HasBlock
  <2>2. ~aborted' /\ transport' # "closed"
    BY <1>3
  <2> QED
    BY <2>1, <2>2 DEF Blocks
<1>9. UNCHANGED Waiting /\ factoryDeferred' = factoryDeferred /\ deferred' = deferred
  BY <1>3 DEF Waiting, session, update, refresh, outcome, server
<1>10. InStep'
  <2>1. /\ transport' = transport /\ aborted' = aborted /\ reported' = reported
        /\ stream' = stream
    BY <1>3 DEF outcome
  <2>2. Startup => Startup'
    BY <1>9, Undisturbed DEF Startup
  <2>3. Serves => Serves'
    BY <1>9, Undisturbed
  <2>4. GaveUp => GaveUp'
    BY <1>9, <2>1, Undisturbed DEF GaveUp
  <2>5. Total(stream, packet + wire) => Total(stream', packet' + wire')
    BY <1>5, <2>1
  <2> QED
    BY <1>1, <2>1, <2>2, <2>3, <2>4, <2>5 DEF InStep
<1>11. RequestOutstanding'
  BY <1>1, <1>3 DEF RequestOutstanding, refresh, server
<1>12. Painting'
  BY <1>1, <1>3 DEF Painting, Paints, update, refresh, server
<1>13. Benign => ServerUnderstood'
  BY <1>3 DEF SInv, ServerUnderstood, outcome, server
<1> QED
  BY <1>6, <1>7, <1>8, <1>10, <1>11, <1>12, <1>13 DEF SInv, SessionTypes

\* Half a greeting is waited out.
LEMMA WaitsOK ==
  ASSUME SInv, ClientWaits PROVE SInv'
<1>1. SessionTypes /\ Blocks /\ InStep /\ RequestOutstanding /\ Painting
  BY DEF SInv
<1>2. /\ pumping' = FALSE
      /\ UNCHANGED <<expectedHandler, expectedLen, args, packet, aborted>>
      /\ UNCHANGED <<session, update, refresh, outcome, transport, stream, wire, server>>
  BY DEF ClientWaits, ShortGreeting, Handshake
<1>3. pumping' \in BOOLEAN
  BY <1>2
<1>4. ClientTypes'
  BY <1>1, <1>2, <1>3 DEF SessionTypes, ClientTypes, session, update, refresh, outcome
<1>5. ServerTypes'
  BY <1>1, <1>2 DEF SessionTypes, ServerTypes, server
<1>6. Blocks'
  BY <1>1, <1>2 DEF Blocks
<1>7. UNCHANGED Waiting /\ factoryDeferred' = factoryDeferred /\ deferred' = deferred
  BY <1>2 DEF Waiting, session, update, refresh, outcome, server
<1>8. InStep'
  <2>1. /\ transport' = transport /\ aborted' = aborted /\ reported' = reported
        /\ stream' = stream /\ packet' = packet /\ wire' = wire
    BY <1>2 DEF outcome
  <2>2. (Startup => Startup') /\ (Serves => Serves') /\ (GaveUp => GaveUp')
    BY <1>7, <2>1, Undisturbed DEF Startup, GaveUp
  <2> QED
    BY <1>1, <2>1, <2>2 DEF InStep
<1>9. RequestOutstanding'
  BY <1>1, <1>2 DEF RequestOutstanding, refresh, server
<1>10. Painting'
  BY <1>1, <1>2 DEF Painting, Paints, update, refresh, server
<1>11. Benign => ServerUnderstood'
  BY <1>2 DEF SInv, ServerUnderstood, outcome, server
<1> QED
  BY <1>4, <1>5, <1>6, <1>8, <1>9, <1>10, <1>11 DEF SInv, SessionTypes

\* A refresh is asked for.
LEMMA RefreshesOK ==
  ASSUME SInv, ClientRefreshes PROVE SInv'
<1>1. SessionTypes /\ Blocks /\ InStep /\ Painting
  BY DEF SInv
<1>2. /\ factoryDeferred = "made" /\ deferred' = TRUE /\ requested' = TRUE
      /\ UNCHANGED <<parser, session, update, lastRefresh, outcome, transport, stream, wire, server>>
  BY DEF ClientRefreshes, RefreshScreen
<1>3. deferred' \in BOOLEAN /\ requested' \in BOOLEAN
  BY <1>2
<1>4. ClientTypes'
  BY <1>1, <1>2, <1>3 DEF SessionTypes, ClientTypes, parser, session, update, outcome
<1>5. ServerTypes'
  BY <1>1, <1>2 DEF SessionTypes, ServerTypes, server
<1>6. Blocks'
  BY <1>1, <1>2 DEF Blocks, parser
<1>7. UNCHANGED Waiting
  BY <1>2 DEF Waiting, parser, session, update, server
<1>8. InStep'
  <2>1. /\ transport' = transport /\ aborted' = aborted /\ reported' = reported
        /\ stream' = stream /\ packet' = packet /\ wire' = wire
    BY <1>2 DEF outcome, parser
  <2>2. ~Startup /\ (Serves => Serves') /\ (GaveUp => GaveUp')
    BY <1>2, <1>7, <2>1, Undisturbed DEF Startup, GaveUp
  <2> QED
    BY <1>1, <2>1, <2>2 DEF InStep
<1>9. RequestOutstanding'
  BY <1>2 DEF RequestOutstanding
<1>10. Painting'
  BY <1>1, <1>2 DEF Painting, Paints, parser, update, server
<1>11. Benign => ServerUnderstood'
  BY <1>2 DEF SInv, ServerUnderstood, parser, outcome, server
<1> QED
  BY <1>4, <1>5, <1>6, <1>8, <1>9, <1>10, <1>11 DEF SInv, SessionTypes

\* The connection is closed.
LEMMA HangUpOK ==
  ASSUME SInv, HangUp PROVE SInv'
<1>1. SessionTypes /\ Painting
  BY DEF SInv
<1>2. /\ ~pumping /\ transport' = "closed"
      /\ reported' = (IF CLI /\ reported = "none" THEN "lost" ELSE reported)
      /\ UNCHANGED <<parser, session, update, refresh, factoryDeferred, stream, wire, server>>
  BY DEF HangUp, ConnectionLost
<1>3. ClientTypes'
  BY <1>1, <1>2 DEF SessionTypes, ClientTypes, parser, session, update, refresh
<1>4. ServerTypes'
  BY <1>1, <1>2 DEF SessionTypes, ServerTypes, server
<1>5. Blocks' /\ InStep' /\ RequestOutstanding'
  BY <1>2 DEF Blocks, InStep, RequestOutstanding, parser
<1>6. Painting'
  BY <1>1, <1>2 DEF Painting, refresh, server
<1>7. Benign => ServerUnderstood'
  BY <1>2 DEF SInv, ServerUnderstood, parser, server
<1> QED
  BY <1>3, <1>4, <1>5, <1>6, <1>7 DEF SInv, SessionTypes

\* A handler that has reported its reason is called again on nothing.
LEMMA ReentersOK ==
  ASSUME SInv, ClientReenters PROVE SInv'
<1>1. /\ pumping /\ expectedHandler \in {"_handleConnMessage", "_handleAuthFailedMessage"}
      /\ ~InFrame
  BY DEF ClientReenters, ConnMessage, AuthFailedMessage, Running
<1>2. transport # "open"
  BY <1>1, Framed DEF FramingAgreed
<1>3. transport = "closing" /\ ~aborted /\ packet >= expectedLen
  BY <1>1, <1>2 DEF SInv, SessionTypes, ClientTypes, Blocks
<1>4. GaveUp
  BY <1>3 DEF SInv, InStep
<1>5. stream = <<>> /\ owed = 0 /\ tiles = 0
  BY <1>4 DEF GaveUp
<1>6. /\ GiveUp("protocol") \/ GiveUp("auth")
      /\ UNCHANGED update /\ UNCHANGED <<stream, wire, server>>
  BY DEF ClientReenters, ConnMessage, AuthFailedMessage
<1>7. phase = "refused"
  BY <1>1, <1>4 DEF GaveUp
<1> QED
  BY <1>1, <1>3, <1>5, <1>6, <1>7, GiveUpOn

-----------------------------------------------------------------------------
(* The server's messages in the startup.                                   *)

\* Fields that are sent.
LEMMA FieldMade ==
  ASSUME NEW k \in Kinds, NEW n \in Nat, NEW v \in Values
  PROVE  F(k, n, v) \in Fields
BY DEF F, Fields

\* Values that are sent.
LEMMA ValuesMade ==
  /\ \A v \in Nat : v \in Values
  /\ \A v \in Announced : v \in Values
  /\ \A v \in SUBSET Nat : v \in Values
  /\ \A v, w \in Nat : <<v, w>> \in Values
  /\ \A v \in Headers : v \in Values
  /\ \A v \in Masks : v \in Values
<1>1. \A v \in Nat : v \in Values
  BY DEF Values
<1>2. \A v \in Announced : v \in Values
  BY DEF Values
<1>3. \A v \in SUBSET Nat : v \in Values
  BY DEF Values
<1>4. \A v, w \in Nat : <<v, w>> \in Values
  <2>1. \A v, w \in Nat : <<v, w>> \in Nat \X Nat
    OBVIOUS
  <2>2. \A x \in Nat \X Nat : x \in Values
    BY DEF Values
  <2> QED
    BY <2>1, <2>2
<1>5. \A v \in Headers : v \in Values
  BY DEF Values
<1>6. \A v \in Masks : v \in Values
  BY DEF Values
<1> QED
  BY <1>1, <1>2, <1>3, <1>4, <1>5, <1>6

\* One, two or three fields, and their bytes.
Few == {<<f>> : f \in Fields} \cup {<<f, g>> : f, g \in Fields}
         \cup {<<f, g, h>> : f, g, h \in Fields}

\* What the server sends at once is of this kind.
LEMMA FewAre ==
  /\ \A f \in Fields : <<f>> \in Few
  /\ \A f, g \in Fields : <<f, g>> \in Few
  /\ \A f, g, h \in Fields : <<f, g, h>> \in Few
BY DEF Few

\* The bytes of one, two or three fields.
LEMMA BytesOf ==
  ASSUME NEW f \in Fields, NEW g \in Fields, NEW h \in Fields
  PROVE  /\ Bytes(<<f>>) = f.len /\ Bytes(<<f, g>>) = f.len + g.len
         /\ Bytes(<<f, g, h>>) = f.len + g.len + h.len
<1>1. f.len \in Nat /\ g.len \in Nat /\ h.len \in Nat
  BY FieldLengths
<1>2. Bytes(<<f>>) = f.len
  BY <1>1 DEF Bytes
<1>3. Bytes(<<f, g>>) = f.len + g.len
  BY <1>1 DEF Bytes
<1>4. Bytes(<<f, g, h>>) = f.len + g.len + h.len
  BY <1>1 DEF Bytes
<1> QED
  BY <1>2, <1>3, <1>4

\* One more field.
LEMMA SentOne ==
  ASSUME NEW s \in Seq(Fields), NEW n \in Nat, NEW f \in Fields
  PROVE  /\ Append(s, f) \in Seq(Fields) /\ f.len \in Nat /\ n + f.len \in Nat
         /\ Total(s, n) => Total(Append(s, f), n + f.len)
<1>1. Append(s, f) \in Seq(Fields)
  BY Prolonged
<1>2. f.len \in Nat
  BY FieldLengths
<1>3. n + f.len \in Nat
  BY <1>2
<1>4. Total(s, n) => Total(Append(s, f), n + f.len)
  BY TotalGrows
<1> QED
  BY <1>1, <1>2, <1>3, <1>4

\* What a server sends stays accounted for, byte by byte.
LEMMA SentBytes ==
  ASSUME NEW s \in Seq(Fields), NEW n \in Nat, NEW fields \in Few
  PROVE  /\ s \o fields \in Seq(Fields) /\ Bytes(fields) \in Nat
         /\ Total(s, n) => Total(s \o fields, n + Bytes(fields))
<1>1. ASSUME NEW f \in Fields, fields = <<f>>
      PROVE  /\ s \o fields \in Seq(Fields) /\ Bytes(fields) \in Nat
             /\ Total(s, n) => Total(s \o fields, n + Bytes(fields))
  <2>1. s \o <<f>> = Append(s, f)
    BY Joined
  <2>2. Bytes(<<f>>) = f.len
    BY BytesOf
  <2>3. /\ Append(s, f) \in Seq(Fields) /\ f.len \in Nat
        /\ Total(s, n) => Total(Append(s, f), n + f.len)
    BY SentOne
  <2> QED
    BY <1>1, <2>1, <2>2, <2>3
<1>2. ASSUME NEW f \in Fields, NEW g \in Fields, fields = <<f, g>>
      PROVE  /\ s \o fields \in Seq(Fields) /\ Bytes(fields) \in Nat
             /\ Total(s, n) => Total(s \o fields, n + Bytes(fields))
  <2> DEFINE s1 == Append(s, f)
             n1 == n + f.len
  <2>1. s \o <<f, g>> = Append(s1, g)
    BY Joined
  <2>2. Bytes(<<f, g>>) = f.len + g.len
    BY BytesOf
  <2>3. s1 \in Seq(Fields) /\ f.len \in Nat /\ n1 \in Nat /\ (Total(s, n) => Total(s1, n1))
    BY SentOne
  <2> HIDE DEF s1, n1
  <2>4. /\ Append(s1, g) \in Seq(Fields) /\ g.len \in Nat
        /\ Total(s1, n1) => Total(Append(s1, g), n1 + g.len)
    BY <2>3, SentOne
  <2>5. n1 + g.len = n + (f.len + g.len) /\ f.len + g.len \in Nat
    BY <2>3, <2>4 DEF n1
  <2> QED
    BY <1>2, <2>1, <2>2, <2>3, <2>4, <2>5
<1>3. ASSUME NEW f \in Fields, NEW g \in Fields, NEW h \in Fields, fields = <<f, g, h>>
      PROVE  /\ s \o fields \in Seq(Fields) /\ Bytes(fields) \in Nat
             /\ Total(s, n) => Total(s \o fields, n + Bytes(fields))
  <2> DEFINE s1 == Append(s, f)
             n1 == n + f.len
             s2 == Append(s1, g)
             n2 == n1 + g.len
  <2>1. s \o <<f, g, h>> = Append(s2, h)
    BY Joined
  <2>2. Bytes(<<f, g, h>>) = f.len + g.len + h.len
    BY BytesOf
  <2>3. s1 \in Seq(Fields) /\ f.len \in Nat /\ n1 \in Nat /\ (Total(s, n) => Total(s1, n1))
    BY SentOne
  <2> HIDE DEF s1, n1
  <2>4. s2 \in Seq(Fields) /\ g.len \in Nat /\ n2 \in Nat /\ (Total(s1, n1) => Total(s2, n2))
    BY <2>3, SentOne
  <2> HIDE DEF s2, n2
  <2>5. /\ Append(s2, h) \in Seq(Fields) /\ h.len \in Nat
        /\ Total(s2, n2) => Total(Append(s2, h), n2 + h.len)
    BY <2>4, SentOne
  <2>6. n2 + h.len = n + (f.len + g.len + h.len) /\ f.len + g.len + h.len \in Nat
    <3>1. f.len \in Nat /\ g.len \in Nat /\ h.len \in Nat
      BY <2>3, <2>4, <2>5
    <3>2. ((n + f.len) + g.len) + h.len = n + (f.len + g.len + h.len)
      BY <3>1
    <3>3. f.len + g.len + h.len \in Nat
      BY <3>1
    <3> QED
      BY <3>2, <3>3 DEF n1, n2
  <2> QED
    BY <1>3, <2>1, <2>2, <2>3, <2>4, <2>5, <2>6
<1> QED
  BY <1>1, <1>2, <1>3 DEF Few

\* A step of the server leaves the client alone.
LEMMA ServerStep ==
  ASSUME SInv, requested' \in BOOLEAN, ServerTypes', uses' = uses, grown => grown',
         UNCHANGED <<parser, session, update, deferred, lastRefresh, outcome, transport>>,
         transport = "open" =>
           (Startup' \/ Serves') /\ Total(stream', packet + wire') /\ RequestOutstanding',
         transport = "closing" => aborted, phase = "refused" => phase' = "refused"
  PROVE  SInv'
<1>1. SessionTypes /\ Blocks /\ InStep /\ Painting
  BY DEF SInv
<1>2. ClientTypes'
  BY <1>1 DEF SessionTypes, ClientTypes, parser, session, update, outcome
<1>3. Blocks'
  BY <1>1 DEF Blocks, parser
<1>4. InStep'
  BY <1>1 DEF InStep, parser, outcome
<1>5. RequestOutstanding'
  <2>1. transport' = transport
    OBVIOUS
  <2>2. CASE transport = "open"
    BY <2>2
  <2>3. CASE transport # "open"
    BY <2>1, <2>3 DEF RequestOutstanding
  <2> QED
    BY <2>2, <2>3
<1>6. Painting'
  BY <1>1 DEF Painting, Paints, parser, update
<1>7. Benign => ServerUnderstood'
  BY DEF SInv, ServerUnderstood, parser, outcome
<1> QED
  BY <1>2, <1>3, <1>4, <1>5, <1>6, <1>7 DEF SInv, SessionTypes

\* A message of the startup.
LEMMA HandshakeSends ==
  ASSUME SInv, NEW fields \in Few, Send(fields), UNCHANGED <<uses, owed, tiles, desktop, grown>>,
         transport = "open" => Startup /\ Startups', ~GaveUp, phase # "refused"
  PROVE  SInv'
<1>1. SessionTypes /\ InStep /\ packet \in Nat /\ wire \in Nat /\ stream \in Seq(Fields)
  BY DEF SInv, SessionTypes, ClientTypes, ServerTypes
<1>2. stream' = stream \o fields /\ wire' = wire + Bytes(fields) /\ UNCHANGED vars
  BY DEF Send
<1>3. /\ stream \o fields \in Seq(Fields) /\ Bytes(fields) \in Nat /\ packet + wire \in Nat
      /\ Total(stream, packet + wire) => Total(stream \o fields, (packet + wire) + Bytes(fields))
  <2>1. packet + wire \in Nat
    BY <1>1
  <2> QED
    BY <1>1, <2>1, SentBytes
<1>4. ServerTypes'
  BY <1>1, <1>2, <1>3 DEF SessionTypes, ServerTypes
<1>5. /\ UNCHANGED <<parser, session, update, deferred, lastRefresh, outcome, transport>>
      /\ requested' = requested /\ requested \in BOOLEAN
  BY <1>1, <1>2 DEF vars, refresh, SessionTypes, ClientTypes
<1>6. ASSUME transport = "open"
      PROVE  Startup' /\ Total(stream', packet + wire') /\ RequestOutstanding'
  <2>1. Startup'
    BY <1>5, <1>6 DEF Startup, Startups, update, outcome
  <2>2. Total(stream', packet + wire')
    <3>1. Total(stream, packet + wire)
      BY <1>1, <1>6 DEF InStep
    <3>2. (packet + wire) + Bytes(fields) = packet + wire'
      BY <1>1, <1>2, <1>3
    <3> QED
      BY <1>2, <1>3, <3>1, <3>2
  <2> QED
    BY <2>1, <2>2 DEF RequestOutstanding, Startup
<1>7. transport = "closing" => aborted
  BY <1>1 DEF InStep
<1>8. requested' \in BOOLEAN
  BY <1>5
<1> QED
  BY <1>4, <1>5, <1>6, <1>7, <1>8, ServerStep

\* Fields whose value is a number.
LEMMA PlainField ==
  ASSUME NEW k \in Kinds, NEW n \in Nat, NEW v \in Nat
  PROVE  F(k, n, v) \in Fields
<1>1. v \in Values
  BY ValuesMade
<1> QED
  BY <1>1, FieldMade

\* Different words are told apart.
LEMMA WordsApart ==
  ASSUME NEW x, NEW y, x # y
  PROVE  <<x>> # <<y>> /\ <<x>> # <<>> /\ <<x>> # <<"none", "init">>
<1>1. <<x>>[1] = x /\ <<y>>[1] = y
  OBVIOUS
<1>2. Len(<<x>>) = 1 /\ Len(<<>>) = 0 /\ Len(<<"none", "init">>) = 2
  OBVIOUS
<1>3. <<x>> # <<y>>
  BY <1>1
<1>4. <<x>> # <<>> /\ <<x>> # <<"none", "init">>
  BY <1>2
<1> QED
  BY <1>3, <1>4

\* When it is the server's turn in the startup.
LEMMA Turn ==
  ASSUME SInv, transport = "open", phase # "running"
  PROVE  /\ Startup
         /\ phase = "start" => stream = <<>> /\ At("_handleInitial", 12) /\ wrote = <<>>
         /\ phase = "greeted" /\ wrote = <<"version">> =>
              /\ stream = <<>>
              /\ IF version < 3007 THEN At("_handleAuth", 4) ELSE At("_handleNumberSecurityTypes", 1)
         /\ phase = "offered" /\ wrote = <<"none">> =>
              stream = <<>> /\ At("_handleVNCAuthResult", 4) /\ version >= 3008
         /\ phase = "offered" /\ wrote = <<"none", "init">> =>
              stream = <<>> /\ At("_handleServerInit", 24) /\ version < 3008
         /\ phase = "offered" /\ wrote = <<"vnc">> => stream = <<>> /\ At("_handleVNCAuth", 16)
         /\ phase = "offered" /\ wrote = <<"dh">> => stream = <<>> /\ At("_handleDHAuth", 4)
         /\ phase = "challenged" /\ wrote = <<"response">> =>
              stream = <<>> /\ At("_handleVNCAuthResult", 4)
         /\ phase = "accepted" /\ wrote \in Inits =>
              stream = <<>> /\ At("_handleServerInit", 24)
<1>1. Startup
  BY DEF SInv, InStep, Serves
<1>2. phase = "start" => stream = <<>> /\ At("_handleInitial", 12) /\ wrote = <<>>
  BY <1>1 DEF Startup, Greets, Offers, Challenges, Accepts, Refuses, Starts
<1>3. phase = "greeted" /\ wrote = <<"version">> =>
        /\ stream = <<>>
        /\ IF version < 3007 THEN At("_handleAuth", 4) ELSE At("_handleNumberSecurityTypes", 1)
  <2>1. <<"version">> # <<>>
    BY WordsApart
  <2>2. phase = "greeted" => Greets
    BY <1>1 DEF Startup, Offers, Challenges, Accepts, Refuses, Starts
  <2> QED
    BY <2>1, <2>2 DEF Greets
<1>4. phase = "offered" => Offers
  BY <1>1 DEF Startup, Greets, Challenges, Accepts, Refuses, Starts
<1>5. phase = "offered" /\ wrote # <<"version">> =>
        /\ stream = <<>>
        /\ \/ At("_handleVNCAuthResult", 4) /\ wrote = <<"none">> /\ version >= 3008
           \/ At("_handleServerInit", 24) /\ wrote = <<"none", "init">> /\ version < 3008
           \/ At("_handleVNCAuth", 16) /\ wrote = <<"vnc">>
           \/ At("_handleDHAuth", 4) /\ wrote = <<"dh">>
  BY <1>4 DEF Offers, OfferOf
<1>6. phase = "offered" /\ wrote = <<"none">> =>
        stream = <<>> /\ At("_handleVNCAuthResult", 4) /\ version >= 3008
  <2>1. /\ <<"none">> # <<"version">> /\ <<"none">> # <<"none", "init">>
        /\ <<"none">> # <<"vnc">> /\ <<"none">> # <<"dh">>
    BY WordsApart
  <2> QED
    BY <1>5, <2>1
<1>7. phase = "offered" /\ wrote = <<"none", "init">> =>
        stream = <<>> /\ At("_handleServerInit", 24) /\ version < 3008
  <2>1. /\ <<"version">> # <<"none", "init">> /\ <<"none">> # <<"none", "init">>
        /\ <<"vnc">> # <<"none", "init">> /\ <<"dh">> # <<"none", "init">>
    BY WordsApart
  <2> QED
    BY <1>5, <2>1
<1>8. phase = "offered" /\ wrote = <<"vnc">> => stream = <<>> /\ At("_handleVNCAuth", 16)
  <2>1. /\ <<"vnc">> # <<"version">> /\ <<"vnc">> # <<"none", "init">>
        /\ <<"vnc">> # <<"none">> /\ <<"vnc">> # <<"dh">>
    BY WordsApart
  <2> QED
    BY <1>5, <2>1
<1>9. phase = "offered" /\ wrote = <<"dh">> => stream = <<>> /\ At("_handleDHAuth", 4)
  <2>1. /\ <<"dh">> # <<"version">> /\ <<"dh">> # <<"none", "init">>
        /\ <<"dh">> # <<"none">> /\ <<"dh">> # <<"vnc">>
    BY WordsApart
  <2> QED
    BY <1>5, <2>1
<1>10. phase = "challenged" /\ wrote = <<"response">> =>
         stream = <<>> /\ At("_handleVNCAuthResult", 4)
  <2>1. phase = "challenged" => Challenges
    BY <1>1 DEF Startup, Greets, Offers, Accepts, Refuses, Starts
  <2> QED
    BY <2>1 DEF Challenges
<1>11. phase = "accepted" /\ wrote \in Inits => stream = <<>> /\ At("_handleServerInit", 24)
  <2>1. phase = "accepted" => Accepts
    BY <1>1 DEF Startup, Greets, Offers, Challenges, Refuses, Starts
  <2> QED
    BY <2>1 DEF Accepts
<1> QED
  BY <1>1, <1>2, <1>3, <1>6, <1>7, <1>8, <1>9, <1>10, <1>11

\* What a message of the startup leaves alone.
LEMMA SendKeeps ==
  ASSUME NEW fields, Send(fields)
  PROVE  /\ expectedHandler' = expectedHandler /\ expectedLen' = expectedLen /\ args' = args
         /\ wrote' = wrote /\ version' = version /\ width' = width /\ transport' = transport
         /\ \A h, n : At(h, n) => At(h, n)'
<1>1. /\ expectedHandler' = expectedHandler /\ expectedLen' = expectedLen /\ args' = args
      /\ wrote' = wrote /\ version' = version /\ width' = width /\ transport' = transport
  BY DEF Send, vars, parser, session
<1>2. \A h, n : At(h, n) => At(h, n)'
  BY <1>1 DEF At
<1> QED
  BY <1>1, <1>2

\* The first message.
LEMMA GreetsOK ==
  ASSUME SInv, ServerGreets PROVE SInv'
<1>1. /\ phase = "start" /\ phase' = "greeted" /\ UNCHANGED <<uses, owed, tiles, desktop, grown>>
      /\ phase # "refused" /\ ~GaveUp
  BY DEF ServerGreets, ServerPhase, GaveUp
<1>2. PICK v \in ServerVersions : Send(<<F("ProtocolVersion", 12, v)>>)
  BY DEF ServerGreets
<1>3. <<F("ProtocolVersion", 12, v)>> \in Few
  <2>1. v \in Nat
    BY VersionAssumption
  <2>2. "ProtocolVersion" \in Kinds
    BY DEF Kinds
  <2>3. F("ProtocolVersion", 12, v) \in Fields
    BY <2>1, <2>2, PlainField
  <2> QED
    BY <2>3, FewAre
<1>4. ASSUME transport = "open" PROVE Startup /\ Startups'
  <2>1. Startup /\ stream = <<>> /\ At("_handleInitial", 12) /\ wrote = <<>>
    BY <1>1, <1>4, Turn
  <2>2. stream' = <<F("ProtocolVersion", 12, v)>>
    BY <1>2, <2>1, FewFields DEF Send
  <2>3. At("_handleInitial", 12)' /\ wrote' = <<>>
    BY <1>2, <2>1, SendKeeps
  <2> QED
    BY <1>1, <2>1, <2>2, <2>3 DEF Startups, Greets
<1> QED
  BY <1>1, <1>2, <1>3, <1>4, HandshakeSends

\* The fields of a refusal.
LEMMA ReasonOK ==
  ASSUME NEW k \in Kinds, NEW l \in Nat, NEW v \in Nat, NEW n \in Lengths
  PROVE  /\ <<F(k, l, v)>> \o ReasonFields(n)
              = <<F(k, l, v), F("ReasonLength", 4, n), F("Reason", n, 0)>>
         /\ <<F(k, l, v), F("ReasonLength", 4, n), F("Reason", n, 0)>> \in Few
<1>1. n \in Nat
  BY SizeAssumption
<1>4. "ReasonLength" \in Kinds /\ "Reason" \in Kinds
  BY DEF Kinds
<1>2. F(k, l, v) \in Fields /\ F("ReasonLength", 4, n) \in Fields /\ F("Reason", n, 0) \in Fields
  BY <1>1, <1>4, PlainField
<1>3. <<F(k, l, v), F("ReasonLength", 4, n), F("Reason", n, 0)>> \in Few
  BY <1>2, FewAre
<1> QED
  BY <1>3, FewFields DEF ReasonFields

\* The security types on offer, or a refusal.
LEMMA OffersOK ==
  ASSUME SInv, ServerOffers PROVE SInv'
<1>1. /\ phase = "greeted" /\ wrote = <<"version">> /\ UNCHANGED <<uses, owed, tiles, desktop, grown>>
      /\ phase # "refused" /\ ~GaveUp /\ phase # "running"
  BY DEF ServerOffers, GaveUp
<1>2. wrote \notin Inits /\ wrote # <<"response">>
  <2>1. <<"version">> # <<"response">>
    BY WordsApart
  <2> QED
    BY <1>1, <2>1, WrittenApart
<1>3. {"NumberOfSecurityTypes", "SecurityTypes", "SecurityType", "Challenge"} \subseteq Kinds
  BY DEF Kinds
<1>4. transport = "open" =>
        /\ Startup /\ stream = <<>>
        /\ IF version < 3007 THEN At("_handleAuth", 4) ELSE At("_handleNumberSecurityTypes", 1)
  BY <1>1, Turn
<1>5. version \in {0, 3003, 3007, 3008}
  BY DEF SInv, SessionTypes, ClientTypes
<1>6. ASSUME NEW types \in SUBSET {AuthNone, AuthVNC, AuthDH, 16}, types \cap SupportedAuths # {},
             version >= 3007, phase' = "offered",
             Send(<<F("NumberOfSecurityTypes", 1, Cardinality(types)),
                    F("SecurityTypes", Cardinality(types), types)>>)
      PROVE  SInv'
  <2> DEFINE c == Cardinality(types)
             fields == <<F("NumberOfSecurityTypes", 1, c), F("SecurityTypes", c, types)>>
  <2>1. c \in Nat
    BY <1>6, OfferCounted
  <2>2. types \in Values
    <3>1. types \in SUBSET Nat
      BY DEF AuthNone, AuthVNC, AuthDH
    <3> QED
      BY <3>1, ValuesMade
  <2> HIDE DEF c
  <2>3. F("NumberOfSecurityTypes", 1, c) \in Fields /\ F("SecurityTypes", c, types) \in Fields
    BY <1>3, <2>1, <2>2, PlainField, FieldMade
  <2>4. fields \in Few
    BY <2>3, FewAre
  <2>5. ASSUME transport = "open" PROVE Startup /\ Startups'
    <3>1. Startup /\ stream = <<>> /\ At("_handleNumberSecurityTypes", 1)
      BY <1>4, <1>5, <1>6, <2>5
    <3>2. stream' = fields
      BY <1>6, <3>1, FewFields DEF Send, c
    <3>3. At("_handleNumberSecurityTypes", 1)' /\ version' >= 3007 /\ wrote' = <<"version">>
      BY <1>1, <1>6, <3>1, SendKeeps
    <3>4. OfferOf(types)'
      BY <1>6, <3>2, <3>3 DEF OfferOf, c
    <3>5. Offers'
      BY <1>6, <3>3, <3>4 DEF Offers
    <3> QED
      BY <3>1, <3>5 DEF Startups
  <2>6. Send(fields)
    BY <1>6 DEF c
  <2> HIDE DEF fields
  <2> QED
    BY <1>1, <2>4, <2>5, <2>6, HandshakeSends
<1>7. ASSUME NEW n \in Lengths, version >= 3007, phase' = "refused",
             Send(<<F("NumberOfSecurityTypes", 1, 0)>> \o ReasonFields(n))
      PROVE  SInv'
  <2> DEFINE fields == <<F("NumberOfSecurityTypes", 1, 0), F("ReasonLength", 4, n), F("Reason", n, 0)>>
  <2>1. fields \in Few /\ Send(fields)
    <3>1. "NumberOfSecurityTypes" \in Kinds /\ 0 \in Nat /\ 1 \in Nat
      BY <1>3
    <3> DEFINE sent == <<F("NumberOfSecurityTypes", 1, 0)>> \o ReasonFields(n)
    <3>2. fields \in Few /\ sent = fields
      BY <3>1, ReasonOK
    <3>3. Send(sent)
      BY <1>7
    <3> HIDE DEF fields, sent
    <3> QED
      BY <3>2, <3>3
  <2>2. ASSUME transport = "open" PROVE Startup /\ Startups'
    <3>1. Startup /\ stream = <<>> /\ At("_handleNumberSecurityTypes", 1)
      BY <1>4, <1>5, <1>7, <2>2
    <3>2. stream' = fields
      BY <2>1, <3>1, FewFields DEF Send
    <3>3. At("_handleNumberSecurityTypes", 1)'
      BY <2>1, <3>1, SendKeeps
    <3>4. Refuses'
      BY <1>7, <3>2, <3>3 DEF Refuses, RefusesWith
    <3> QED
      BY <3>1, <3>4 DEF Startups
  <2> HIDE DEF fields
  <2> QED
    BY <1>1, <2>1, <2>2, HandshakeSends
<1>8. ASSUME NEW n \in Lengths, version < 3007, phase' = "refused",
             Send(<<F("SecurityType", 4, 0)>> \o ReasonFields(n))
      PROVE  SInv'
  <2> DEFINE fields == <<F("SecurityType", 4, 0), F("ReasonLength", 4, n), F("Reason", n, 0)>>
  <2>1. fields \in Few /\ Send(fields)
    <3>1. "SecurityType" \in Kinds /\ 0 \in Nat /\ 4 \in Nat
      BY <1>3
    <3> DEFINE sent == <<F("SecurityType", 4, 0)>> \o ReasonFields(n)
    <3>2. fields \in Few /\ sent = fields
      BY <3>1, ReasonOK
    <3>3. Send(sent)
      BY <1>8
    <3> HIDE DEF fields, sent
    <3> QED
      BY <3>2, <3>3
  <2>2. ASSUME transport = "open" PROVE Startup /\ Startups'
    <3>1. Startup /\ stream = <<>> /\ At("_handleAuth", 4)
      BY <1>4, <1>8, <2>2
    <3>2. stream' = fields
      BY <2>1, <3>1, FewFields DEF Send
    <3>3. At("_handleAuth", 4)'
      BY <2>1, <3>1, SendKeeps
    <3>4. Refuses'
      BY <1>8, <3>2, <3>3 DEF Refuses, RefusesWith
    <3> QED
      BY <3>1, <3>4 DEF Startups
  <2> HIDE DEF fields
  <2> QED
    BY <1>1, <2>1, <2>2, HandshakeSends
<1>9. ASSUME version < 3007, phase' = "accepted", Send(<<F("SecurityType", 4, AuthNone)>>)
      PROVE  SInv'
  <2> DEFINE fields == <<F("SecurityType", 4, AuthNone)>>
  <2>1. F("SecurityType", 4, AuthNone) \in Fields
    BY <1>3, PlainField DEF AuthNone
  <2>2. fields \in Few
    BY <2>1, FewAre
  <2>3. ASSUME transport = "open" PROVE Startup /\ Startups'
    <3>1. Startup /\ stream = <<>> /\ At("_handleAuth", 4)
      BY <1>4, <1>9, <2>3
    <3>2. stream' = fields
      BY <1>9, <3>1, FewFields DEF Send
    <3>3. At("_handleAuth", 4)' /\ wrote' \notin Inits
      BY <1>2, <1>9, <3>1, SendKeeps
    <3>4. Accepts'
      BY <1>9, <3>2, <3>3 DEF Accepts
    <3> QED
      BY <3>1, <3>4 DEF Startups
  <2> HIDE DEF fields
  <2> QED
    BY <1>1, <1>9, <2>2, <2>3, HandshakeSends DEF fields
<1>10. ASSUME version < 3007, phase' = "challenged",
              Send(<<F("SecurityType", 4, AuthVNC), F("Challenge", 16, 0)>>)
       PROVE  SInv'
  <2> DEFINE fields == <<F("SecurityType", 4, AuthVNC), F("Challenge", 16, 0)>>
  <2>1. F("SecurityType", 4, AuthVNC) \in Fields /\ F("Challenge", 16, 0) \in Fields
    BY <1>3, PlainField DEF AuthVNC
  <2>2. fields \in Few
    BY <2>1, FewAre
  <2>3. ASSUME transport = "open" PROVE Startup /\ Startups'
    <3>1. Startup /\ stream = <<>> /\ At("_handleAuth", 4)
      BY <1>4, <1>10, <2>3
    <3>2. stream' = fields
      BY <1>10, <3>1, FewFields DEF Send
    <3>3. At("_handleAuth", 4)' /\ wrote' # <<"response">>
      BY <1>2, <1>10, <3>1, SendKeeps
    <3>4. Challenges'
      BY <1>10, <3>2, <3>3 DEF Challenges
    <3> QED
      BY <3>1, <3>4 DEF Startups
  <2> HIDE DEF fields
  <2> QED
    BY <1>1, <1>10, <2>2, <2>3, HandshakeSends DEF fields
<1>11. CASE version >= 3007 /\ phase' = "offered"
  <2>1. \E types \in SUBSET {AuthNone, AuthVNC, AuthDH, 16} :
          /\ types \cap SupportedAuths # {}
          /\ Send(<<F("NumberOfSecurityTypes", 1, Cardinality(types)),
                    F("SecurityTypes", Cardinality(types), types)>>)
    BY <1>5, <1>11 DEF ServerOffers
  <2> QED
    BY <1>6, <1>11, <2>1
<1>12. CASE version >= 3007 /\ phase' = "refused"
  <2>1. \E n \in Lengths : Send(<<F("NumberOfSecurityTypes", 1, 0)>> \o ReasonFields(n))
    BY <1>5, <1>12 DEF ServerOffers
  <2> QED
    BY <1>7, <1>12, <2>1
<1>13. CASE version < 3007 /\ phase' = "refused"
  <2>1. \E n \in Lengths : Send(<<F("SecurityType", 4, 0)>> \o ReasonFields(n))
    BY <1>5, <1>13 DEF ServerOffers
  <2> QED
    BY <1>8, <1>13, <2>1
<1>14. CASE version < 3007 /\ phase' = "accepted"
  <2>1. Send(<<F("SecurityType", 4, AuthNone)>>)
    BY <1>5, <1>14 DEF ServerOffers
  <2> QED
    BY <1>9, <1>14, <2>1
<1>15. CASE version < 3007 /\ phase' = "challenged"
  <2>1. Send(<<F("SecurityType", 4, AuthVNC), F("Challenge", 16, 0)>>)
    BY <1>5, <1>15 DEF ServerOffers
  <2> QED
    BY <1>10, <1>15, <2>1
<1> QED
  BY <1>11, <1>12, <1>13, <1>14, <1>15 DEF ServerOffers

\* The answer to the client's choice.
LEMMA ChallengesOK ==
  ASSUME SInv, ServerChallenges PROVE SInv'
<1>1. /\ phase = "offered" /\ UNCHANGED <<uses, owed, tiles, desktop, grown>>
      /\ phase # "refused" /\ ~GaveUp /\ phase # "running"
  BY DEF ServerChallenges, GaveUp
<1>2. {"SecurityResult", "Challenge", "DHParameters", "DHModulus", "DHPublicKey"} \subseteq Kinds
  BY DEF Kinds
<1>3. ASSUME wrote \in {<<"none">>, <<"none", "init">>}, phase' = "accepted", version >= 3008,
             Send(<<F("SecurityResult", 4, 0)>>)
      PROVE  SInv'
  <2> DEFINE fields == <<F("SecurityResult", 4, 0)>>
  <2>1. F("SecurityResult", 4, 0) \in Fields
    BY <1>2, PlainField
  <2>2. fields \in Few
    BY <2>1, FewAre
  <2>3. ASSUME transport = "open" PROVE Startup /\ Startups'
    <3>1. wrote = <<"none">>
      <4>1. version \in {0, 3003, 3007, 3008}
        BY DEF SInv, SessionTypes, ClientTypes
      <4> QED
        BY <1>1, <1>3, <2>3, <4>1, Turn
    <3>2. Startup /\ stream = <<>> /\ At("_handleVNCAuthResult", 4)
      BY <1>1, <2>3, <3>1, Turn
    <3>3. stream' = fields
      BY <1>3, <3>2, FewFields DEF Send
    <3>4. At("_handleVNCAuthResult", 4)' /\ wrote' \notin Inits
      BY <1>3, <3>1, <3>2, SendKeeps, WrittenApart
    <3>5. Accepts'
      BY <1>3, <3>3, <3>4 DEF Accepts
    <3> QED
      BY <3>2, <3>5 DEF Startups
  <2> HIDE DEF fields
  <2> QED
    BY <1>1, <1>3, <2>2, <2>3, HandshakeSends DEF fields
<1>4. ASSUME wrote \in {<<"none">>, <<"none", "init">>}, phase' = "accepted", ~(version >= 3008),
             UNCHANGED <<vars, stream, wire>>
      PROVE  SInv'
  <2>1. SessionTypes /\ InStep
    BY DEF SInv
  <2>2. /\ UNCHANGED <<parser, session, update, deferred, lastRefresh, outcome, transport>>
        /\ requested' = requested
    BY <1>4 DEF vars, refresh
  <2>3. requested' \in BOOLEAN
    BY <2>1, <2>2 DEF SessionTypes, ClientTypes
  <2>4. ServerTypes'
    BY <1>1, <1>4, <2>1 DEF SessionTypes, ServerTypes
  <2>5. ASSUME transport = "open"
        PROVE  (Startup' \/ Serves') /\ Total(stream', packet + wire') /\ RequestOutstanding'
    <3>1. wrote = <<"none", "init">>
      BY <1>1, <1>4, <2>5, Turn
    <3>2. Startup /\ stream = <<>> /\ At("_handleServerInit", 24)
      BY <1>1, <2>5, <3>1, Turn
    <3>3. wrote' \in Inits /\ At("_handleServerInit", 24)'
      BY <2>2, <3>1, <3>2 DEF Inits, parser, session, At
    <3>4. Accepts'
      BY <1>4, <3>2, <3>3 DEF Accepts
    <3>5. Startup'
      BY <1>1, <2>2, <3>2, <3>4 DEF Startup, update, outcome
    <3>6. Total(stream', packet + wire')
      BY <1>4, <2>1, <2>5 DEF InStep
    <3> QED
      BY <3>5, <3>6 DEF RequestOutstanding, Startup
  <2>6. transport = "closing" => aborted
    BY <1>1, <2>1 DEF InStep
  <2> QED
    BY <1>1, <2>2, <2>3, <2>4, <2>5, <2>6, ServerStep
<1>5. ASSUME wrote = <<"vnc">>, phase' = "challenged", Send(<<F("Challenge", 16, 0)>>)
      PROVE  SInv'
  <2> DEFINE fields == <<F("Challenge", 16, 0)>>
  <2>1. F("Challenge", 16, 0) \in Fields
    BY <1>2, PlainField
  <2>2. fields \in Few
    BY <2>1, FewAre
  <2>3. ASSUME transport = "open" PROVE Startup /\ Startups'
    <3>1. Startup /\ stream = <<>> /\ At("_handleVNCAuth", 16)
      BY <1>1, <1>5, <2>3, Turn
    <3>2. stream' = fields
      BY <1>5, <3>1, FewFields DEF Send
    <3>3. At("_handleVNCAuth", 16)' /\ wrote' # <<"response">>
      BY <1>5, <3>1, SendKeeps, WordsApart
    <3>4. Challenges'
      BY <1>5, <3>2, <3>3 DEF Challenges
    <3> QED
      BY <3>1, <3>4 DEF Startups
  <2> HIDE DEF fields
  <2> QED
    BY <1>1, <1>5, <2>2, <2>3, HandshakeSends DEF fields
<1>6. ASSUME wrote = <<"dh">>, phase' = "challenged", NEW n \in Lengths,
             Send(<<F("DHParameters", 4, n), F("DHModulus", n, 0), F("DHPublicKey", n, 0)>>)
      PROVE  SInv'
  <2> DEFINE fields == <<F("DHParameters", 4, n), F("DHModulus", n, 0), F("DHPublicKey", n, 0)>>
  <2>1. n \in Nat
    BY SizeAssumption
  <2>2. /\ F("DHParameters", 4, n) \in Fields /\ F("DHModulus", n, 0) \in Fields
        /\ F("DHPublicKey", n, 0) \in Fields
    BY <1>2, <2>1, PlainField
  <2>3. fields \in Few
    BY <2>2, FewAre
  <2>4. ASSUME transport = "open" PROVE Startup /\ Startups'
    <3>1. Startup /\ stream = <<>> /\ At("_handleDHAuth", 4)
      BY <1>1, <1>6, <2>4, Turn
    <3>2. stream' = fields
      BY <1>6, <3>1, FewFields DEF Send
    <3>3. At("_handleDHAuth", 4)' /\ wrote' # <<"response">>
      BY <1>6, <3>1, SendKeeps, WordsApart
    <3>4. KeyExchange(n)'
      BY <3>2, <3>3 DEF KeyExchange
    <3>5. Challenges'
      BY <1>6, <3>3, <3>4 DEF Challenges
    <3> QED
      BY <3>1, <3>5 DEF Startups
  <2> HIDE DEF fields
  <2> QED
    BY <1>1, <1>6, <2>3, <2>4, HandshakeSends DEF fields
<1>7. CASE wrote \in {<<"none">>, <<"none", "init">>} /\ phase' = "accepted"
  <2>1. IF version >= 3008 THEN Send(<<F("SecurityResult", 4, 0)>>)
                           ELSE UNCHANGED <<vars, stream, wire>>
    BY <1>7 DEF ServerChallenges
  <2> QED
    BY <1>3, <1>4, <1>7, <2>1
<1>8. CASE /\ wrote = <<"dh">> /\ phase' = "challenged"
           /\ \E n \in Lengths : Send(<<F("DHParameters", 4, n), F("DHModulus", n, 0),
                                        F("DHPublicKey", n, 0)>>)
  BY <1>6, <1>8
<1> QED
  BY <1>5, <1>7, <1>8 DEF ServerChallenges

\* The verdict on the client's response.
LEMMA JudgesOK ==
  ASSUME SInv, ServerJudges PROVE SInv'
<1>1. /\ phase = "challenged" /\ wrote = <<"response">> /\ UNCHANGED <<uses, owed, tiles, desktop, grown>>
      /\ phase # "refused" /\ ~GaveUp /\ phase # "running"
  BY DEF ServerJudges, GaveUp
<1>2. "SecurityResult" \in Kinds
  BY DEF Kinds
<1>3. transport = "open" => Startup /\ stream = <<>> /\ At("_handleVNCAuthResult", 4)
  BY <1>1, Turn
<1>4. version \in {0, 3003, 3007, 3008}
  BY DEF SInv, SessionTypes, ClientTypes
<1>5. ASSUME phase' = "accepted", Send(<<F("SecurityResult", 4, 0)>>)
      PROVE  SInv'
  <2> DEFINE fields == <<F("SecurityResult", 4, 0)>>
  <2>1. F("SecurityResult", 4, 0) \in Fields
    BY <1>2, PlainField
  <2>2. fields \in Few
    BY <2>1, FewAre
  <2>3. ASSUME transport = "open" PROVE Startup /\ Startups'
    <3>1. stream' = fields
      BY <1>3, <1>5, <2>3, FewFields DEF Send
    <3>2. At("_handleVNCAuthResult", 4)' /\ wrote' \notin Inits
      BY <1>1, <1>3, <1>5, <2>3, SendKeeps, WrittenApart
    <3>3. Accepts'
      BY <1>5, <3>1, <3>2 DEF Accepts
    <3> QED
      BY <1>3, <2>3, <3>3 DEF Startups
  <2> HIDE DEF fields
  <2> QED
    BY <1>1, <1>5, <2>2, <2>3, HandshakeSends DEF fields
<1>6. ASSUME phase' = "refused", NEW r \in {1, 2}, NEW n \in Lengths, version >= 3008,
             Send(<<F("SecurityResult", 4, r)>> \o ReasonFields(n))
      PROVE  SInv'
  <2> DEFINE fields == <<F("SecurityResult", 4, r), F("ReasonLength", 4, n), F("Reason", n, 0)>>
             sent == <<F("SecurityResult", 4, r)>> \o ReasonFields(n)
  <2>1. fields \in Few /\ sent = fields
    <3>1. r \in Nat /\ 4 \in Nat
      OBVIOUS
    <3> QED
      BY <1>2, <3>1, ReasonOK
  <2>2. Send(sent)
    BY <1>6
  <2>3. Send(fields)
    <3> HIDE DEF fields, sent
    <3> QED
      BY <2>1, <2>2
  <2>4. ASSUME transport = "open" PROVE Startup /\ Startups'
    <3>1. stream' = fields
      BY <1>3, <2>3, <2>4, FewFields DEF Send
    <3>2. At("_handleVNCAuthResult", 4)' /\ version' >= 3008
      BY <1>3, <1>6, <2>3, <2>4, SendKeeps
    <3>3. RefusesWith(n)'
      BY <3>1, <3>2 DEF RefusesWith
    <3>4. Refuses'
      BY <1>6, <3>3 DEF Refuses
    <3> QED
      BY <1>3, <2>4, <3>4 DEF Startups
  <2> HIDE DEF fields
  <2> QED
    BY <1>1, <2>1, <2>3, <2>4, HandshakeSends
<1>7. ASSUME phase' = "refused", NEW r \in {1, 2}, ~(version >= 3008),
             Send(<<F("SecurityResult", 4, r)>> \o <<>>)
      PROVE  SInv'
  <2> DEFINE fields == <<F("SecurityResult", 4, r)>>
             sent == <<F("SecurityResult", 4, r)>> \o <<>>
  <2>1. r \in Nat
    OBVIOUS
  <2>2. F("SecurityResult", 4, r) \in Fields
    BY <1>2, <2>1, PlainField
  <2>3. fields \in Few /\ sent = fields
    BY <2>2, FewAre, FewFields
  <2>4. Send(sent)
    BY <1>7
  <2>5. Send(fields)
    <3> HIDE DEF fields, sent
    <3> QED
      BY <2>3, <2>4
  <2>6. ASSUME transport = "open" PROVE Startup /\ Startups'
    <3>1. stream' = fields
      BY <1>3, <2>5, <2>6, FewFields DEF Send
    <3>2. At("_handleVNCAuthResult", 4)' /\ version' < 3008
      BY <1>3, <1>4, <1>7, <2>5, <2>6, SendKeeps
    <3>3. Refuses'
      BY <1>7, <3>1, <3>2 DEF Refuses
    <3> QED
      BY <1>3, <2>6, <3>3 DEF Startups
  <2> HIDE DEF fields
  <2> QED
    BY <1>1, <2>3, <2>5, <2>6, HandshakeSends
<1>8. CASE phase' = "accepted"
  BY <1>5, <1>8 DEF ServerJudges
<1>9. CASE phase' = "refused"
  <2>1. PICK r \in {1, 2}, n \in Lengths :
          Send(<<F("SecurityResult", 4, r)>> \o IF version >= 3008 THEN ReasonFields(n) ELSE <<>>)
    BY <1>9 DEF ServerJudges
  <2>2. CASE version >= 3008
    <3>1. Send(<<F("SecurityResult", 4, r)>> \o ReasonFields(n))
      BY <2>1, <2>2
    <3> QED
      BY <1>6, <1>9, <2>2, <3>1
  <2>3. CASE ~(version >= 3008)
    <3>1. Send(<<F("SecurityResult", 4, r)>> \o <<>>)
      BY <2>1, <2>3
    <3> QED
      BY <1>7, <1>9, <2>3, <3>1
  <2> QED
    BY <2>2, <2>3
<1> QED
  BY <1>8, <1>9 DEF ServerJudges

\* The size of the desktop and its name.
LEMMA StartsOK ==
  ASSUME SInv, ServerStarts PROVE SInv'
<1>1. /\ phase = "accepted" /\ phase' = "running" /\ UNCHANGED <<uses, owed, tiles, desktop, grown>>
      /\ wrote \in Inits /\ phase # "refused" /\ ~GaveUp
  BY DEF ServerStarts, ServerPhase, GaveUp, Inits
<1>2. PICK n \in Lengths : Send(<<F("ServerInit", 24, <<desktop, n>>), F("Name", n, 0)>>)
  BY DEF ServerStarts
<1> DEFINE fields == <<F("ServerInit", 24, <<desktop, n>>), F("Name", n, 0)>>
<1>3. fields \in Few
  <2>1. n \in Nat /\ desktop \in Nat
    BY SizeAssumption DEF SInv, SessionTypes, ServerTypes
  <2>2. <<desktop, n>> \in Values
    BY <2>1, ValuesMade
  <2>3. "ServerInit" \in Kinds /\ "Name" \in Kinds
    BY DEF Kinds
  <2>4. F("ServerInit", 24, <<desktop, n>>) \in Fields
    BY <2>2, <2>3, FieldMade
  <2>5. F("Name", n, 0) \in Fields
    BY <2>1, <2>3, PlainField
  <2> QED
    BY <2>4, <2>5, FewAre
<1>4. ASSUME transport = "open" PROVE Startup /\ Startups'
  <2>1. Startup /\ stream = <<>> /\ At("_handleServerInit", 24)
    BY <1>1, <1>4, Turn
  <2>2. stream' = fields
    BY <1>2, <2>1, FewFields DEF Send
  <2>3. At("_handleServerInit", 24)' /\ wrote' # <<"encodings">> /\ desktop' = desktop
    BY <1>1, <1>2, <2>1, SendKeeps, WrittenApart
  <2>4. Starts'
    BY <1>1, <2>2, <2>3 DEF Starts
  <2> QED
    BY <2>1, <2>4 DEF Startups
<1> HIDE DEF fields
<1> QED
  BY <1>1, <1>2, <1>3, <1>4, HandshakeSends DEF fields

\* Each message of the startup.
LEMMA HandshakeOK ==
  ASSUME SInv, ServerHandshake PROVE SInv'
BY GreetsOK, OffersOK, ChallengesOK, JudgesOK, StartsOK DEF ServerHandshake

-----------------------------------------------------------------------------
(* The server's messages after the startup.                                *)

\* The field f leads from one place to the next.
Goes(u, p, f, q) == Fits(u, p, f) /\ q = Behind(p, f.value)

\* A path goes on by one field.
LEMMA PathSentOne ==
  ASSUME NEW u, NEW s \in Seq(Fields), NEW p, NEW e, Path(u, s, p, e),
         NEW f \in Fields, NEW q, Goes(u, e, f, q)
  PROVE  Append(s, f) \in Seq(Fields) /\ Path(u, Append(s, f), p, q)
<1>1. Fits(u, e, f) /\ q = Behind(e, f.value)
  BY DEF Goes
<1>2. e \in Places
  BY PathPlaces
<1>3. Behind(e, f.value) \in Places
  BY <1>1, <1>2, BehindPlace
<1>4. Path(u, Append(s, f), p, Behind(e, f.value))
  BY <1>1, <1>3, PathGrows
<1> QED
  BY <1>1, <1>4, Prolonged

\* A path goes on by one field, two or three.
LEMMA PathSent ==
  ASSUME NEW u, NEW s \in Seq(Fields), NEW p, NEW e, Path(u, s, p, e),
         NEW f \in Fields, NEW q1, Goes(u, e, f, q1)
  PROVE  /\ Path(u, s \o <<f>>, p, q1)
         /\ \A g \in Fields : \A q2 : Goes(u, q1, g, q2) =>
              /\ Path(u, s \o <<f, g>>, p, q2)
              /\ \A h \in Fields : \A q3 : Goes(u, q2, h, q3) => Path(u, s \o <<f, g, h>>, p, q3)
<1> DEFINE s1 == Append(s, f)
<1>1. s1 \in Seq(Fields) /\ Path(u, s1, p, q1)
  BY PathSentOne
<1>2. s \o <<f>> = s1
  BY Joined
<1>3. ASSUME NEW g \in Fields PROVE s \o <<f, g>> = Append(s1, g)
  BY Joined
<1>4. ASSUME NEW g \in Fields, NEW h \in Fields
      PROVE  s \o <<f, g, h>> = Append(Append(s1, g), h)
  BY Joined
<1> HIDE DEF s1
<1>5. ASSUME NEW g \in Fields, NEW q2, Goes(u, q1, g, q2)
      PROVE  /\ Path(u, s \o <<f, g>>, p, q2)
             /\ \A h \in Fields : \A q3 : Goes(u, q2, h, q3) => Path(u, s \o <<f, g, h>>, p, q3)
  <2> DEFINE s2 == Append(s1, g)
  <2>1. s2 \in Seq(Fields) /\ Path(u, s2, p, q2)
    BY <1>1, <1>5, PathSentOne
  <2>2. s \o <<f, g>> = s2
    BY <1>3
  <2>3. ASSUME NEW h \in Fields PROVE s \o <<f, g, h>> = Append(s2, h)
    BY <1>4
  <2> HIDE DEF s2
  <2>4. ASSUME NEW h \in Fields, NEW q3, Goes(u, q2, h, q3)
        PROVE  Path(u, s \o <<f, g, h>>, p, q3)
    <3>1. Path(u, Append(s2, h), p, q3)
      BY <2>1, <2>4, PathSentOne
    <3>2. s \o <<f, g, h>> = Append(s2, h)
      BY <2>3
    <3> QED
      BY <3>1, <3>2
  <2> QED
    BY <2>1, <2>2, <2>4
<1> QED
  BY <1>1, <1>2, <1>5

\* The field that a handler waits for.
LEMMA GoesAt ==
  ASSUME NEW u, NEW h \in Reading, NEW n, NEW a, NEW r, NEW v,
         ValueFits(u, Place(h, n, a, r), v)
  PROVE  Goes(u, Place(h, n, a, r), F(Reads(h), n, v), Behind(Place(h, n, a, r), v))
BY PlaceFields, FieldOf DEF Goes, Fits

\* What the handlers of messages and of rectangles read.
LEMMA ReadsAs ==
  /\ Reads("_handleConnection") = "MessageType" /\ Reads("_handleServerCutText") = "CutTextHeader"
  /\ Reads("_handleServerCutTextValue") = "CutText"
  /\ Reads("_handleColourMapEntries") = "ColourMapHeader"
  /\ Reads("_handleColourMapEntriesValue") = "ColourMap"
  /\ Reads("_handleFramebufferUpdate") = "UpdateHeader"
  /\ Reads("_handleRectangle") = "RectangleHeader" /\ Reads("_pumpPixels") = "RawPixels"
  /\ Reads("_pumpForClient") = "CopyRectSource" /\ Reads("_handleDecodeRRE") = "RREHeader"
  /\ Reads("_handleRRESubRectangles") = "RRESubrectangles"
  /\ Reads("_handleDecodeZRLE") = "ZRLELength" /\ Reads("_handleDecodeZRLEdata") = "ZRLEData"
  /\ Reads("_handleDecodePsuedoCursor") = "CursorPixels"
  /\ Reads("_handleDecodeHextile") = "HextileMask" /\ Reads("_handleDecodeHextileRAW") = "HextileRaw"
  /\ Reads("_handleDecodeHextileSubrect") = "HextileColours"
  /\ Reads("_handleDecodeHextileSubrectsColoured") = "HextileSubrectangles"
  /\ Reads("_handleDecodeHextileSubrectsFG") = "HextileSubrectangles"
BY DEF Reads

\* The fields of a message, from one place to the next.
LEMMA MessageGoes ==
  ASSUME NEW u, NEW n \in Nat
  PROVE  /\ \A v \in Announced : Goes(u, Between(0), F("MessageType", 1, v), BehindType(v))
         /\ Goes(u, Place("_handleServerCutText", 7, NoArgs, 0), F("CutTextHeader", 7, n),
                 Place("_handleServerCutTextValue", n, NoArgs, 0))
         /\ Goes(u, Place("_handleServerCutTextValue", n, NoArgs, 0), F("CutText", n, 0), Between(0))
         /\ Goes(u, Place("_handleColourMapEntries", 5, NoArgs, 0), F("ColourMapHeader", 5, n),
                 Place("_handleColourMapEntriesValue", 6 * n, NoArgs, 0))
         /\ Goes(u, Place("_handleColourMapEntriesValue", 6 * n, NoArgs, 0),
                 F("ColourMap", 6 * n, 0), Between(0))
         /\ n # 0 => Goes(u, Place("_handleFramebufferUpdate", 3, NoArgs, 0),
                          F("UpdateHeader", 3, n), Between(n))
<1>1. MessageHandlers \subseteq Reading
  BY DEF MessageHandlers, Reading, SessionHandlers
<1>2. {"_handleConnection", "_handleServerCutText", "_handleServerCutTextValue",
       "_handleColourMapEntries", "_handleColourMapEntriesValue", "_handleFramebufferUpdate"}
        \subseteq Reading
  BY <1>1 DEF MessageHandlers
<1>3. ASSUME NEW v \in Announced
      PROVE  Goes(u, Between(0), F("MessageType", 1, v), BehindType(v))
  <2> DEFINE p == Place("_handleConnection", 1, NoArgs, 0)
  <2>1. p.h = "_handleConnection" /\ p.r = 0
    BY PlaceFields
  <2> HIDE DEF p
  <2>2. ValueFits(u, p, v)
    BY <2>1 DEF ValueFits, HextileHandlers
  <2>3. Behind(p, v) = BehindType(v)
    BY <2>1, Behinds
  <2>4. Goes(u, p, F(Reads("_handleConnection"), 1, v), Behind(p, v))
    BY <1>2, <2>2, GoesAt DEF p
  <2>5. Between(0) = p
    BY BetweenPlace DEF p
  <2> QED
    BY <2>3, <2>4, <2>5, ReadsAs
<1>4. Goes(u, Place("_handleServerCutText", 7, NoArgs, 0), F("CutTextHeader", 7, n),
           Place("_handleServerCutTextValue", n, NoArgs, 0))
  <2> DEFINE p == Place("_handleServerCutText", 7, NoArgs, 0)
  <2>1. p.h = "_handleServerCutText" /\ p.r = 0
    BY PlaceFields
  <2> HIDE DEF p
  <2>2. ValueFits(u, p, n)
    BY <2>1 DEF ValueFits, HextileHandlers
  <2>3. Goes(u, p, F(Reads("_handleServerCutText"), 7, n), Behind(p, n))
    BY <1>2, <2>2, GoesAt DEF p
  <2> DEFINE q == Place("_handleServerCutTextValue", n, NoArgs, 0)
  <2>4. Behind(p, n) = q
    BY <2>1, Behinds
  <2> HIDE DEF q
  <2>5. Goes(u, p, F("CutTextHeader", 7, n), q)
    BY <2>3, <2>4, ReadsAs
  <2> QED
    BY <2>5 DEF p, q
<1>5. Goes(u, Place("_handleServerCutTextValue", n, NoArgs, 0), F("CutText", n, 0), Between(0))
  <2> DEFINE p == Place("_handleServerCutTextValue", n, NoArgs, 0)
  <2>1. p.h = "_handleServerCutTextValue" /\ p.r = 0
    BY PlaceFields
  <2> HIDE DEF p
  <2>2. ValueFits(u, p, 0)
    BY <2>1 DEF ValueFits, HextileHandlers
  <2>3. Goes(u, p, F(Reads("_handleServerCutTextValue"), n, 0), Behind(p, 0))
    BY <1>2, <2>2, GoesAt DEF p
  <2>4. Behind(p, 0) = Between(0)
    BY <2>1, Behinds
  <2> QED
    BY <2>3, <2>4, ReadsAs DEF p
<1>6. Goes(u, Place("_handleColourMapEntries", 5, NoArgs, 0), F("ColourMapHeader", 5, n),
           Place("_handleColourMapEntriesValue", 6 * n, NoArgs, 0))
  <2> DEFINE p == Place("_handleColourMapEntries", 5, NoArgs, 0)
  <2>1. p.h = "_handleColourMapEntries" /\ p.r = 0
    BY PlaceFields
  <2> HIDE DEF p
  <2>2. ValueFits(u, p, n)
    BY <2>1 DEF ValueFits, HextileHandlers
  <2>3. Goes(u, p, F(Reads("_handleColourMapEntries"), 5, n), Behind(p, n))
    BY <1>2, <2>2, GoesAt DEF p
  <2> DEFINE q == Place("_handleColourMapEntriesValue", 6 * n, NoArgs, 0)
  <2>4. Behind(p, n) = q
    BY <2>1, Behinds
  <2> HIDE DEF q
  <2>5. Goes(u, p, F("ColourMapHeader", 5, n), q)
    BY <2>3, <2>4, ReadsAs
  <2> QED
    BY <2>5 DEF p, q
<1>7. Goes(u, Place("_handleColourMapEntriesValue", 6 * n, NoArgs, 0),
           F("ColourMap", 6 * n, 0), Between(0))
  <2> DEFINE k == 6 * n
             p == Place("_handleColourMapEntriesValue", k, NoArgs, 0)
  <2> HIDE DEF k
  <2>1. p.h = "_handleColourMapEntriesValue" /\ p.r = 0
    BY PlaceFields
  <2> HIDE DEF p
  <2>2. ValueFits(u, p, 0)
    BY <2>1 DEF ValueFits, HextileHandlers
  <2>3. Goes(u, p, F(Reads("_handleColourMapEntriesValue"), k, 0), Behind(p, 0))
    BY <1>2, <2>2, GoesAt DEF p
  <2>4. Behind(p, 0) = Between(0)
    BY <2>1, Behinds
  <2> QED
    BY <2>3, <2>4, ReadsAs DEF p, k
<1>8. ASSUME n # 0
      PROVE  Goes(u, Place("_handleFramebufferUpdate", 3, NoArgs, 0), F("UpdateHeader", 3, n),
                  Between(n))
  <2> DEFINE p == Place("_handleFramebufferUpdate", 3, NoArgs, 0)
  <2>1. p.h = "_handleFramebufferUpdate" /\ p.r = 0
    BY PlaceFields
  <2> HIDE DEF p
  <2>2. ValueFits(u, p, n)
    BY <1>8, <2>1 DEF ValueFits, HextileHandlers
  <2>3. Goes(u, p, F(Reads("_handleFramebufferUpdate"), 3, n), Behind(p, n))
    BY <1>2, <2>2, GoesAt DEF p
  <2>4. Behind(p, n) = Between(n)
    BY <2>1, Behinds
  <2> QED
    BY <2>3, <2>4, ReadsAs DEF p
<1> QED
  BY <1>3, <1>4, <1>5, <1>6, <1>7, <1>8

\* Where the server is when it has o rectangles and t tiles to send.
AtEnd(e, o, t) ==
  IF t # 0
    THEN /\ e.h = "_handleDecodeHextile" /\ e.n = 1 /\ e.r = o /\ e.a.tiles = t /\ e.a.w = 1
    ELSE e = Between(o)

\* A sequence that goes on keeps its elements.
LEMMA GoesOn ==
  ASSUME NEW S, NEW s \in Seq(S), NEW t \in Seq(S), t # <<>>
  PROVE  /\ \A i \in 1..Len(s) : i \in 1..Len(s \o t) /\ (s \o t)[i] = s[i]
         /\ Len(s) + 1 \in 1..Len(s \o t) /\ (s \o t)[Len(s) + 1] = t[1]
<1>1. Len(s) \in Nat /\ Len(t) \in Nat \ {0} /\ Len(s \o t) = Len(s) + Len(t)
  OBVIOUS
<1>2. \A i \in 1..Len(s) : (s \o t)[i] = s[i]
  OBVIOUS
<1>3. (s \o t)[Len(s) + 1] = t[1]
  <2>1. Len(s) + 1 \in 1..Len(s) + Len(t) /\ ~(Len(s) + 1 <= Len(s)) /\ (Len(s) + 1) - Len(s) = 1
    BY <1>1
  <2> QED
    BY <2>1
<1>4. Len(s) + 1 \in 1..Len(s \o t) /\ \A i \in 1..Len(s) : i \in 1..Len(s \o t)
  BY <1>1
<1> QED
  BY <1>2, <1>3, <1>4

\* A few fields are a sequence of them.
LEMMA FewSeq ==
  ASSUME NEW fields \in Few
  PROVE  fields \in Seq(Fields) /\ fields # <<>>
<1>1. ASSUME NEW f \in Fields, fields = <<f>>
      PROVE  fields \in Seq(Fields) /\ fields # <<>>
  BY <1>1
<1>2. ASSUME NEW f \in Fields, NEW g \in Fields, fields = <<f, g>>
      PROVE  fields \in Seq(Fields) /\ fields # <<>>
  BY <1>2
<1>3. ASSUME NEW f \in Fields, NEW g \in Fields, NEW h \in Fields, fields = <<f, g, h>>
      PROVE  fields \in Seq(Fields) /\ fields # <<>>
  BY <1>3
<1> QED
  BY <1>1, <1>2, <1>3 DEF Few

\* Fields that are sent answer a request, or leave it outstanding.
LEMMA SentOutstanding ==
  ASSUME SInv, transport' = transport, deferred' = deferred, expectedHandler' = expectedHandler,
         NEW fields \in Few, stream' = stream \o fields,
         \/ owed' > 0 \/ fields[1].kind = "RectangleHeader"
         \/ requested' = requested /\ owed' = owed
  PROVE  RequestOutstanding'
<1>1. stream \in Seq(Fields) /\ RequestOutstanding
  BY DEF SInv, SessionTypes, ServerTypes
<1>2. fields \in Seq(Fields) /\ fields # <<>>
  BY FewSeq
<1>3. /\ \A i \in 1..Len(stream) : i \in 1..Len(stream') /\ stream'[i] = stream[i]
      /\ Len(stream) + 1 \in 1..Len(stream') /\ stream'[Len(stream) + 1] = fields[1]
  BY <1>1, <1>2, GoesOn
<1>4. CASE owed' > 0
  BY <1>4 DEF RequestOutstanding
<1>5. CASE fields[1].kind = "RectangleHeader"
  <2>1. stream'[Len(stream) + 1].kind = "RectangleHeader"
    BY <1>3, <1>5
  <2> QED
    BY <1>3, <2>1 DEF RequestOutstanding
<1>6. CASE requested' = requested /\ owed' = owed
  <2>1. CASE \E i \in 1..Len(stream) : stream[i].kind \in {"UpdateHeader", "RectangleHeader"}
    <3>1. PICK i \in 1..Len(stream) : stream[i].kind \in {"UpdateHeader", "RectangleHeader"}
      BY <2>1
    <3>2. i \in 1..Len(stream') /\ stream'[i].kind \in {"UpdateHeader", "RectangleHeader"}
      BY <1>3, <3>1
    <3> QED
      BY <3>2 DEF RequestOutstanding
  <2>2. CASE requested \/ owed > 0 \/ expectedHandler \in RectangleHandlers
    BY <1>6, <2>2 DEF RequestOutstanding
  <2>3. CASE ~(deferred /\ transport = "open")
    BY <2>3 DEF RequestOutstanding
  <2> QED
    BY <1>1, <2>1, <2>2, <2>3 DEF RequestOutstanding
<1> QED
  BY <1>4, <1>5, <1>6

\* A message after the startup leads from where the server was to where it is.
LEMMA ServesSends ==
  ASSUME SInv, NEW fields \in Few, stream' = stream \o fields, wire' = wire + Bytes(fields),
         UNCHANGED <<parser, session, update, deferred, lastRefresh, outcome, transport>>,
         uses' = uses, phase' = phase, requested' \in BOOLEAN, owed' \in Nat, tiles' \in Nat,
         desktop' \in Widths, grown => grown', ~GaveUp,
         owed # 0 \/ tiles # 0 \/ (phase = "running" /\ wrote = <<"encodings">>),
         \/ owed' > 0 \/ fields[1].kind = "RectangleHeader"
         \/ requested' = requested /\ owed' = owed,
         \A e : Path(uses, stream, Here, e) /\ AtEnd(e, owed, tiles) =>
           \E z : Path(uses, stream \o fields, Here, z) /\ AtEnd(z, owed', tiles')
  PROVE  SInv'
<1>1. SessionTypes /\ InStep /\ packet \in Nat /\ wire \in Nat /\ stream \in Seq(Fields)
  BY DEF SInv, SessionTypes, ClientTypes, ServerTypes
<1>2. /\ stream \o fields \in Seq(Fields) /\ Bytes(fields) \in Nat /\ packet + wire \in Nat
      /\ Total(stream, packet + wire) => Total(stream \o fields, (packet + wire) + Bytes(fields))
  <2>1. packet + wire \in Nat
    BY <1>1
  <2> QED
    BY <1>1, <2>1, SentBytes
<1>3. ServerTypes'
  BY <1>1, <1>2 DEF SessionTypes, ServerTypes
<1>4. ASSUME transport = "open"
      PROVE  Serves' /\ Total(stream', packet + wire')
  <2>1. Serves
    <3>1. Startup => owed = 0 /\ tiles = 0
      BY DEF Startup
    <3>2. phase = "running" /\ wrote = <<"encodings">> => ~Startup
      BY DEF Startup, Greets, Offers, Challenges, Accepts, Refuses, Starts
    <3> QED
      BY <1>1, <1>4, <3>1, <3>2 DEF InStep
  <2>2. PICK e : Path(uses, stream, Here, e) /\ ServerAt(e)
    BY <2>1 DEF Serves
  <2>3. AtEnd(e, owed, tiles)
    BY <2>2 DEF ServerAt, AtEnd
  <2>4. PICK q : Path(uses, stream \o fields, Here, q) /\ AtEnd(q, owed', tiles')
    BY <2>2, <2>3
  <2>5. ServerAt(q)'
    BY <2>4 DEF ServerAt, AtEnd
  <2>6. Here' = Here /\ width' = width /\ wrote' = wrote
    BY DEF Here, parser, session, update
  <2>7. Path(uses, stream, Here, q)'
    BY <2>4, <2>6
  <2>9. Serves'
    BY <2>1, <2>5, <2>6, <2>7 DEF Serves
  <2>10. Total(stream', packet + wire')
    <3>1. Total(stream, packet + wire)
      BY <1>1, <1>4 DEF InStep
    <3>2. (packet + wire) + Bytes(fields) = packet + wire'
      BY <1>1, <1>2
    <3> QED
      BY <1>2, <3>1, <3>2
  <2> QED
    BY <2>9, <2>10
<1>5. RequestOutstanding'
  <2>1. transport' = transport /\ deferred' = deferred /\ expectedHandler' = expectedHandler
    BY DEF parser
  <2> QED
    BY <2>1, SentOutstanding
<1>6. transport = "closing" => aborted
  BY <1>1 DEF InStep
<1> QED
  BY <1>3, <1>4, <1>5, <1>6, ServerStep

\* What Send leaves of the client, said for the lemma above.
LEMMA SendServes ==
  ASSUME SInv, NEW fields, Send(fields)
  PROVE  /\ stream' = stream \o fields /\ wire' = wire + Bytes(fields)
         /\ UNCHANGED <<parser, session, update, deferred, lastRefresh, outcome, transport>>
         /\ requested' = requested /\ requested' \in BOOLEAN
<1>1. /\ stream' = stream \o fields /\ wire' = wire + Bytes(fields)
      /\ UNCHANGED <<parser, session, update, deferred, lastRefresh, outcome, transport>>
      /\ requested' = requested
  BY DEF Send, vars, refresh
<1>2. requested' \in BOOLEAN
  BY <1>1 DEF SInv, SessionTypes, ClientTypes
<1> QED
  BY <1>1, <1>2

\* What the server keeps to.
LEMMA ServerKeeps ==
  ASSUME SInv
  PROVE  /\ stream \in Seq(Fields) /\ owed \in Nat /\ tiles \in Nat /\ desktop \in Nat
         /\ desktop \in Widths /\ width \in Nat /\ uses \subseteq Encodings
BY ServerAssumption, SizeAssumption DEF SInv, SessionTypes, ServerTypes, ClientTypes

\* Between two messages.
LEMMA MessageOK ==
  ASSUME SInv, ServerMessage PROVE SInv'
<1>1. /\ phase = "running" /\ wrote = <<"encodings">> /\ owed = 0 /\ tiles = 0
      /\ phase' = phase /\ UNCHANGED <<uses, owed, tiles, desktop, grown>> /\ ~GaveUp
  BY DEF ServerMessage, ServerPhase, GaveUp
<1>2. /\ stream \in Seq(Fields) /\ owed' \in Nat /\ tiles' \in Nat /\ desktop' \in Widths
  BY <1>1, ServerKeeps
<1>3. {"MessageType", "CutTextHeader", "CutText", "ColourMapHeader", "ColourMap"} \subseteq Kinds
  BY DEF Kinds
<1>4. \A v \in Announced : F("MessageType", 1, v) \in Fields
  <2>1. \A v \in Announced : v \in Values
    BY ValuesMade
  <2> QED
    BY <1>3, <2>1, FieldMade
<1>5. ASSUME NEW fields \in Few, Send(fields),
             \A e : Path(uses, stream, Here, e) /\ e = Between(0) =>
                    Path(uses, stream \o fields, Here, Between(0))
      PROVE  SInv'
  <2>1. \A e : Path(uses, stream, Here, e) /\ AtEnd(e, owed, tiles) =>
               \E z : Path(uses, stream \o fields, Here, z) /\ AtEnd(z, owed', tiles')
    BY <1>1, <1>5 DEF AtEnd
  <2>2. /\ stream' = stream \o fields /\ wire' = wire + Bytes(fields)
        /\ UNCHANGED <<parser, session, update, deferred, lastRefresh, outcome, transport>>
        /\ requested' = requested
    BY <1>5, SendServes
  <2>3. requested' \in BOOLEAN
    BY <1>5, SendServes
  <2> QED
    BY <1>1, <1>2, <2>1, <2>2, <2>3, ServesSends
<1>6. ASSUME Send(<<F("MessageType", 1, "bell")>>) PROVE SInv'
  <2> DEFINE f == F("MessageType", 1, "bell")
  <2>1. "bell" \in Announced /\ BehindType("bell") = Between(0)
    BY DEF Announced, BehindType
  <2>2. f \in Fields /\ <<f>> \in Few /\ Goes(uses, Between(0), f, Between(0))
    <3>1. f \in Fields
      BY <1>4, <2>1
    <3>2. Goes(uses, Between(0), f, Between(0))
      BY <2>1, MessageGoes
    <3> QED
      BY <3>1, <3>2, FewAre
  <2> HIDE DEF f
  <2>3. ASSUME NEW e, Path(uses, stream, Here, e), e = Between(0)
        PROVE  Path(uses, stream \o <<f>>, Here, Between(0))
    BY <1>2, <2>2, <2>3, PathSent
  <2>4. Send(<<f>>)
    BY <1>6 DEF f
  <2> QED
    BY <1>5, <2>2, <2>3, <2>4
<1>7. ASSUME NEW n \in Lengths,
             Send(<<F("MessageType", 1, "serverCutText"), F("CutTextHeader", 7, n), F("CutText", n, 0)>>)
      PROVE  SInv'
  <2> DEFINE f == F("MessageType", 1, "serverCutText")
             g == F("CutTextHeader", 7, n)
             h == F("CutText", n, 0)
             p == Place("_handleServerCutText", 7, NoArgs, 0)
             q == Place("_handleServerCutTextValue", n, NoArgs, 0)
  <2>1. n \in Nat /\ "serverCutText" \in Announced /\ BehindType("serverCutText") = p
    BY SizeAssumption DEF Announced, BehindType
  <2>2. f \in Fields /\ g \in Fields /\ h \in Fields
    BY <1>3, <1>4, <2>1, PlainField
  <2>3. /\ Goes(uses, Between(0), f, p) /\ Goes(uses, p, g, q)
        /\ Goes(uses, q, h, Between(0))
    BY <2>1, MessageGoes
  <2> HIDE DEF f, g, h, p, q
  <2>4. <<f, g, h>> \in Few
    BY <2>2, FewAre
  <2>5. ASSUME NEW e, Path(uses, stream, Here, e), e = Between(0)
        PROVE  Path(uses, stream \o <<f, g, h>>, Here, Between(0))
    BY <1>2, <2>2, <2>3, <2>5, PathSent
  <2>6. Send(<<f, g, h>>)
    BY <1>7 DEF f, g, h
  <2> QED
    BY <1>5, <2>4, <2>5, <2>6
<1>8. ASSUME NEW n \in Lengths,
             Send(<<F("MessageType", 1, "setColourMapEntries"), F("ColourMapHeader", 5, n),
                    F("ColourMap", 6 * n, 0)>>)
      PROVE  SInv'
  <2> DEFINE f == F("MessageType", 1, "setColourMapEntries")
             g == F("ColourMapHeader", 5, n)
             h == F("ColourMap", 6 * n, 0)
             p == Place("_handleColourMapEntries", 5, NoArgs, 0)
             q == Place("_handleColourMapEntriesValue", 6 * n, NoArgs, 0)
  <2>1. /\ n \in Nat /\ 6 * n \in Nat
        /\ "setColourMapEntries" \in Announced /\ BehindType("setColourMapEntries") = p
    BY SizeAssumption DEF Announced, BehindType
  <2>2. f \in Fields /\ g \in Fields /\ h \in Fields
    BY <1>3, <1>4, <2>1, PlainField
  <2>3. /\ Goes(uses, Between(0), f, p) /\ Goes(uses, p, g, q)
        /\ Goes(uses, q, h, Between(0))
    BY <2>1, MessageGoes
  <2> HIDE DEF f, g, h, p, q
  <2>4. <<f, g, h>> \in Few
    BY <2>2, FewAre
  <2>5. ASSUME NEW e, Path(uses, stream, Here, e), e = Between(0)
        PROVE  Path(uses, stream \o <<f, g, h>>, Here, Between(0))
    BY <1>2, <2>2, <2>3, <2>5, PathSent
  <2>6. Send(<<f, g, h>>)
    BY <1>8 DEF f, g, h
  <2> QED
    BY <1>5, <2>4, <2>5, <2>6
<1> QED
  BY <1>6, <1>7, <1>8 DEF ServerMessage

\* The head of an update.
LEMMA UpdateHeadOK ==
  ASSUME SInv, ServerUpdate PROVE SInv'
<1>1. /\ phase = "running" /\ wrote = <<"encodings">> /\ owed = 0 /\ tiles = 0
      /\ UNCHANGED <<uses, phase, tiles, desktop, grown>>
      /\ UNCHANGED <<parser, session, update, deferred, lastRefresh, outcome, transport>>
  BY DEF ServerUpdate
<1>13. ~GaveUp
  BY <1>1 DEF GaveUp
<1>2. requested' \in BOOLEAN
  BY DEF ServerUpdate
<1>3. PICK n \in 1..MaxRects :
        /\ owed' = n
        /\ stream' = stream \o <<F("MessageType", 1, "framebufferUpdate"), F("UpdateHeader", 3, n)>>
        /\ wire' = wire + Bytes(<<F("MessageType", 1, "framebufferUpdate"), F("UpdateHeader", 3, n)>>)
  BY DEF ServerUpdate
<1> DEFINE f == F("MessageType", 1, "framebufferUpdate")
           g == F("UpdateHeader", 3, n)
           p == Place("_handleFramebufferUpdate", 3, NoArgs, 0)
<1>4. owed' = n /\ stream' = stream \o <<f, g>> /\ wire' = wire + Bytes(<<f, g>>)
  BY <1>3
<1>5. n \in Nat /\ n # 0 /\ n > 0
  BY ServerAssumption
<1>6. "framebufferUpdate" \in Announced /\ BehindType("framebufferUpdate") = p
  BY DEF Announced, BehindType
<1>7. f \in Fields
  <2>1. "framebufferUpdate" \in Values
    BY <1>6, ValuesMade
  <2>2. "MessageType" \in Kinds
    BY DEF Kinds
  <2> QED
    BY <2>1, <2>2, FieldMade
<1>8. g \in Fields
  <2>1. "UpdateHeader" \in Kinds
    BY DEF Kinds
  <2> QED
    BY <1>5, <2>1, PlainField
<1>9. Goes(uses, Between(0), f, p) /\ Goes(uses, p, g, Between(n))
  BY <1>5, <1>6, MessageGoes
<1> HIDE DEF f, g, p
<1>10. <<f, g>> \in Few
  BY <1>7, <1>8, FewAre
<1>11. stream \in Seq(Fields) /\ desktop' \in Widths /\ tiles' = 0 /\ owed' \in Nat /\ owed' > 0
  BY <1>1, <1>4, <1>5, ServerKeeps
<1>12. ASSUME NEW e, Path(uses, stream, Here, e), AtEnd(e, owed, tiles)
       PROVE  \E q : Path(uses, stream \o <<f, g>>, Here, q) /\ AtEnd(q, owed', tiles')
  <2>1. e = Between(0)
    BY <1>1, <1>12 DEF AtEnd
  <2>2. Path(uses, stream \o <<f, g>>, Here, Between(n))
    BY <1>7, <1>8, <1>9, <1>11, <1>12, <2>1, PathSent
  <2>3. AtEnd(Between(n), owed', tiles')
    BY <1>4, <1>11 DEF AtEnd
  <2> QED
    BY <2>2, <2>3
<1> DEFINE fields == <<f, g>>
<1>14. \A e : Path(uses, stream, Here, e) /\ AtEnd(e, owed, tiles) =>
              \E z : Path(uses, stream \o fields, Here, z) /\ AtEnd(z, owed', tiles')
  BY <1>12
<1>15. fields \in Few /\ stream' = stream \o fields /\ wire' = wire + Bytes(fields)
  BY <1>4, <1>10
<1>16. /\ UNCHANGED <<parser, session, update, deferred, lastRefresh, outcome, transport>>
       /\ uses' = uses /\ phase' = phase /\ desktop' = desktop /\ tiles' \in Nat
       /\ phase = "running" /\ wrote = <<"encodings">> /\ (grown => grown')
  BY <1>1, <1>11
<1> HIDE DEF fields
<1> QED
  BY <1>2, <1>11, <1>13, <1>14, <1>15, <1>16, ServesSends

\* A rectangle's header, from one place to the next.
LEMMA HeaderGoes ==
  ASSUME NEW u, NEW r \in Nat, r # 0, NEW v, HeaderFits(u, v)
  PROVE  Goes(u, Between(r), F("RectangleHeader", 12, v), BehindHeader(v, r - 1))
<1> DEFINE p == Place("_handleRectangle", 12, NoArgs, r)
<1>1. p.h = "_handleRectangle" /\ p.r = r /\ Between(r) = p
  BY PlaceFields, BetweenPlace
<1> HIDE DEF p
<1>2. ValueFits(u, p, v)
  BY <1>1 DEF ValueFits, MessageHandlers, HextileHandlers
<1>3. "_handleRectangle" \in Reading
  BY DEF Reading, SessionHandlers, RectangleHandlers
<1>4. Goes(u, p, F(Reads("_handleRectangle"), 12, v), Behind(p, v))
  BY <1>2, <1>3, GoesAt DEF p
<1>5. Behind(p, v) = BehindHeader(v, r - 1)
  BY <1>1, Behinds
<1> QED
  BY <1>1, <1>4, <1>5, ReadsAs

\* The rest of a rectangle.
LEMMA BodyGoes ==
  ASSUME NEW u, NEW n, NEW a, NEW r,
         NEW h \in {"_pumpPixels", "_pumpForClient", "_handleRRESubRectangles",
                    "_handleDecodeZRLEdata", "_handleDecodePsuedoCursor"}
  PROVE  Goes(u, Place(h, n, a, r), F(Reads(h), n, 0), Between(r))
<1> DEFINE p == Place(h, n, a, r)
<1>1. p.h = h /\ p.r = r
  BY PlaceFields
<1> HIDE DEF p
<1>2. ValueFits(u, p, 0)
  BY <1>1 DEF ValueFits, MessageHandlers, HextileHandlers
<1>3. h \in Reading
  BY DEF Reading, SessionHandlers, RectangleHandlers
<1>4. Goes(u, p, F(Reads(h), n, 0), Behind(p, 0))
  BY <1>2, <1>3, GoesAt DEF p
<1>5. Behind(p, 0) = Between(r)
  BY <1>1, Behinds
<1> QED
  BY <1>4, <1>5 DEF p

\* The count or the length in front of it.
LEMMA CountGoes ==
  ASSUME NEW u, NEW k, NEW n \in Nat, NEW a, NEW r
  PROVE  /\ Goes(u, Place("_handleDecodeRRE", k, a, r), F("RREHeader", k, n),
                 IF n # 0 THEN Place("_handleRRESubRectangles", (8 + Bypp) * n, NoArgs, r)
                          ELSE Between(r))
         /\ Goes(u, Place("_handleDecodeZRLE", k, a, r), F("ZRLELength", k, n),
                 Place("_handleDecodeZRLEdata", n, NoArgs, r))
<1>1. "_handleDecodeRRE" \in Reading /\ "_handleDecodeZRLE" \in Reading
  BY DEF Reading, SessionHandlers, RectangleHandlers
<1>2. Goes(u, Place("_handleDecodeRRE", k, a, r), F("RREHeader", k, n),
           IF n # 0 THEN Place("_handleRRESubRectangles", (8 + Bypp) * n, NoArgs, r)
                    ELSE Between(r))
  <2> DEFINE p == Place("_handleDecodeRRE", k, a, r)
             q == IF n # 0 THEN Place("_handleRRESubRectangles", (8 + Bypp) * n, NoArgs, r)
                           ELSE Between(r)
  <2>1. p.h = "_handleDecodeRRE" /\ p.r = r
    BY PlaceFields
  <2> HIDE DEF p
  <2>2. ValueFits(u, p, n)
    BY <2>1 DEF ValueFits, MessageHandlers, HextileHandlers
  <2>3. Goes(u, p, F(Reads("_handleDecodeRRE"), k, n), Behind(p, n))
    BY <1>1, <2>2, GoesAt DEF p
  <2>4. Behind(p, n) = q
    BY <2>1, Behinds
  <2> HIDE DEF q
  <2>5. Goes(u, p, F("RREHeader", k, n), q)
    BY <2>3, <2>4, ReadsAs
  <2> QED
    BY <2>5 DEF p, q
<1>3. Goes(u, Place("_handleDecodeZRLE", k, a, r), F("ZRLELength", k, n),
           Place("_handleDecodeZRLEdata", n, NoArgs, r))
  <2> DEFINE p == Place("_handleDecodeZRLE", k, a, r)
             q == Place("_handleDecodeZRLEdata", n, NoArgs, r)
  <2>1. p.h = "_handleDecodeZRLE" /\ p.r = r
    BY PlaceFields
  <2> HIDE DEF p
  <2>2. ValueFits(u, p, n)
    BY <2>1 DEF ValueFits, MessageHandlers, HextileHandlers
  <2>3. Goes(u, p, F(Reads("_handleDecodeZRLE"), k, n), Behind(p, n))
    BY <1>1, <2>2, GoesAt DEF p
  <2>4. Behind(p, n) = q
    BY <2>1, Behinds
  <2> HIDE DEF q
  <2>5. Goes(u, p, F("ZRLELength", k, n), q)
    BY <2>3, <2>4, ReadsAs
  <2> QED
    BY <2>5 DEF p, q
<1> QED
  BY <1>2, <1>3

\* The header of a rectangle that is sent.
LEMMA HeaderSent ==
  ASSUME NEW k \in Known, NEW w \in Nat, NEW n \in Nat
  PROVE  LET v == [encoding |-> k, w |-> w, tiles |-> n] IN
         /\ v \in Headers /\ v.encoding = k /\ v.w = w /\ v.tiles = n
         /\ Header(k, w, n) = F("RectangleHeader", 12, v) /\ Header(k, w, n) \in Fields
<1> DEFINE v == [encoding |-> k, w |-> w, tiles |-> n]
<1>1. v \in Headers /\ v.encoding = k /\ v.w = w /\ v.tiles = n
  BY DEF Headers
<1>2. Header(k, w, n) = F("RectangleHeader", 12, v)
  BY DEF Header
<1> HIDE DEF v
<1>3. v \in Values /\ "RectangleHeader" \in Kinds
  BY <1>1, ValuesMade DEF Kinds
<1>4. F("RectangleHeader", 12, v) \in Fields
  BY <1>3, FieldMade
<1> QED
  BY <1>1, <1>2, <1>4 DEF v

\* A rectangle, or the head of one.
LEMMA RectangleSends ==
  ASSUME SInv, NEW fields \in Few, Send(fields), phase = "running", owed > 0, tiles = 0,
         uses' = uses, phase' = phase, owed' \in Nat, tiles' \in Nat, desktop' \in Widths,
         grown => grown', fields[1].kind = "RectangleHeader",
         Path(uses, stream, Here, Between(owed)) =>
           \E z : Path(uses, stream \o fields, Here, z) /\ AtEnd(z, owed', tiles')
  PROVE  SInv'
<1>1. \A e : Path(uses, stream, Here, e) /\ AtEnd(e, owed, tiles) =>
             \E z : Path(uses, stream \o fields, Here, z) /\ AtEnd(z, owed', tiles')
  BY DEF AtEnd
<1>2. /\ stream' = stream \o fields /\ wire' = wire + Bytes(fields)
      /\ UNCHANGED <<parser, session, update, deferred, lastRefresh, outcome, transport>>
  BY SendServes
<1>3. requested' \in BOOLEAN
  BY SendServes
<1>4. ~GaveUp /\ owed # 0
  BY ServerKeeps DEF GaveUp
<1> QED
  BY <1>1, <1>2, <1>3, <1>4, ServesSends

\* The first field of a few.
LEMMA FirstOf ==
  ASSUME NEW f, NEW g, NEW h
  PROVE  <<f>>[1] = f /\ <<f, g>>[1] = f /\ <<f, g, h>>[1] = f
OBVIOUS

\* The last rectangle but one, the last, and what is left.
LEMMA Fewer ==
  ASSUME SInv, owed > 0
  PROVE  /\ owed \in Nat /\ owed # 0 /\ owed - 1 \in Nat /\ stream \in Seq(Fields)
         /\ AtEnd(Between(owed - 1), owed - 1, 0) /\ AtEnd(Between(0), 0, 0)
         /\ desktop \in Widths /\ desktop \in Nat /\ width \in Nat
<1>1. owed \in Nat /\ owed # 0 /\ owed - 1 \in Nat
  BY ServerKeeps
<1>2. AtEnd(Between(owed - 1), owed - 1, 0) /\ AtEnd(Between(0), 0, 0)
  BY DEF AtEnd
<1> QED
  BY <1>1, <1>2, ServerKeeps

\* A rectangle with pixels.
LEMMA PixelsOK ==
  ASSUME SInv, ServerPixels PROVE SInv'
<1>1. /\ phase = "running" /\ owed > 0 /\ tiles = 0 /\ owed' = owed - 1
      /\ uses' = uses /\ phase' = phase /\ desktop' = desktop /\ grown' = grown
  BY DEF ServerPixels
<1>2. /\ owed \in Nat /\ owed # 0 /\ owed - 1 \in Nat /\ stream \in Seq(Fields)
      /\ AtEnd(Between(owed - 1), owed - 1, 0)
      /\ desktop \in Widths /\ desktop \in Nat /\ width \in Nat
  BY <1>1, Fewer
<1> DEFINE r == owed - 1
<1>3. PICK w \in Widths \cap 1..desktop :
       \/ /\ "raw" \in uses /\ tiles' = 0
          /\ Send(<<Header("raw", w, 0), F("RawPixels", w * Bypp, 0)>>)
       \/ /\ "rre" \in uses /\ tiles' = 0
          /\ \E n \in Lengths :
               Send(<<Header("rre", w, 0), F("RREHeader", 4 + Bypp, n)>>
                      \o IF n = 0 THEN <<>> ELSE <<F("RRESubrectangles", (8 + Bypp) * n, 0)>>)
       \/ /\ "zrle" \in uses /\ tiles' = 0
          /\ \E n \in Lengths \ {0} :
               Send(<<Header("zrle", w, 0), F("ZRLELength", 4, n), F("ZRLEData", n, 0)>>)
       \/ /\ "hextile" \in uses /\ w = 1
          /\ \E n \in 1..MaxTiles : tiles' = n /\ Send(<<Header("hextile", w, n)>>)
  BY DEF ServerPixels
<1>4. w \in Nat /\ w # 0 /\ w <= desktop /\ w * Bypp \in Nat /\ 4 + Bypp \in Nat
  <2>1. w \in Nat /\ w # 0 /\ w <= desktop
    BY <1>2
  <2> QED
    BY <2>1, SizesOK
<1>5. {"raw", "rre", "zrle", "hextile"} \subseteq Known
  BY DEF Known
<1>6. {"RawPixels", "RREHeader", "RRESubrectangles", "ZRLELength", "ZRLEData"} \subseteq Kinds
  BY DEF Kinds
<1>7. r \in Nat /\ owed' = r /\ AtEnd(Between(r), r, 0)
  BY <1>1, <1>2
<1>8. ASSUME "raw" \in uses, tiles' = 0,
             Send(<<Header("raw", w, 0), F("RawPixels", w * Bypp, 0)>>)
      PROVE  SInv'
  <2> DEFINE v == [encoding |-> "raw", w |-> w, tiles |-> 0]
             f == Header("raw", w, 0)
             g == F("RawPixels", w * Bypp, 0)
             p == Place("_pumpPixels", w * Bypp, Of(w), r)
  <2>1. /\ v \in Headers /\ v.encoding = "raw" /\ v.w = w
        /\ f = F("RectangleHeader", 12, v) /\ f \in Fields
    BY <1>4, <1>5, HeaderSent
  <2>2. f.kind = "RectangleHeader"
    BY <2>1, FieldOf
  <2>3. g \in Fields
    BY <1>4, <1>6, PlainField
  <2>4. Send(<<f, g>>)
    BY <1>8
  <2> HIDE DEF v, f
  <2>5. BehindHeader(v, r) = p
    BY <2>1, BehindHeaders
  <2>6. Goes(uses, p, g, Between(r))
    BY BodyGoes, ReadsAs
  <2> HIDE DEF g, p
  <2>7. ASSUME Path(uses, stream, Here, Between(owed))
        PROVE  Path(uses, stream \o <<f, g>>, Here, Between(r))
    <3>2. HeaderFits(uses, v)
      BY <1>4, <1>8, <2>1 DEF HeaderFits
    <3>3. Goes(uses, Between(owed), f, p)
      BY <1>2, <2>1, <2>5, <3>2, HeaderGoes
    <3> QED
      BY <1>2, <2>1, <2>3, <2>6, <2>7, <3>3, PathSent
  <2> DEFINE fields == <<f, g>>
  <2>8. fields \in Few /\ fields[1].kind = "RectangleHeader" /\ Send(fields)
    BY <2>1, <2>2, <2>3, <2>4, FewAre, FirstOf
  <2>9. Path(uses, stream, Here, Between(owed)) =>
          \E z : Path(uses, stream \o fields, Here, z) /\ AtEnd(z, owed', tiles')
    BY <1>7, <1>8, <2>7
  <2> HIDE DEF fields
  <2> QED
    BY <1>1, <1>2, <1>7, <1>8, <2>8, <2>9, RectangleSends
<1>9. ASSUME "rre" \in uses, tiles' = 0, NEW n \in Lengths,
             Send(<<Header("rre", w, 0), F("RREHeader", 4 + Bypp, n)>>
                    \o IF n = 0 THEN <<>> ELSE <<F("RRESubrectangles", (8 + Bypp) * n, 0)>>)
      PROVE  SInv'
  <2> DEFINE v == [encoding |-> "rre", w |-> w, tiles |-> 0]
             f == Header("rre", w, 0)
             g == F("RREHeader", 4 + Bypp, n)
             h == F("RRESubrectangles", (8 + Bypp) * n, 0)
             p == Place("_handleDecodeRRE", 4 + Bypp, Of(w), r)
             q == Place("_handleRRESubRectangles", (8 + Bypp) * n, NoArgs, r)
  <2>1. /\ v \in Headers /\ v.encoding = "rre" /\ v.w = w /\ v.tiles = 0
        /\ f = F("RectangleHeader", 12, v) /\ f \in Fields
    BY <1>4, <1>5, HeaderSent
  <2>2. f.kind = "RectangleHeader"
    BY <2>1, FieldOf
  <2>3. n \in Nat
    BY SizeAssumption
  <2>4. (8 + Bypp) * n \in Nat
    BY <2>3, SizesOK
  <2>5. g \in Fields /\ h \in Fields
    BY <1>4, <1>6, <2>3, <2>4, PlainField
  <2>6. Send(<<f, g>> \o IF n = 0 THEN <<>> ELSE <<h>>)
    BY <1>9
  <2> HIDE DEF v, f
  <2>7. BehindHeader(v, r) = p
    BY <2>1, BehindHeaders
  <2>8. Goes(uses, p, g, IF n # 0 THEN q ELSE Between(r))
    BY <2>3, CountGoes
  <2>9. Goes(uses, q, h, Between(r))
    <3> DEFINE k == (8 + Bypp) * n
    <3> HIDE DEF k
    <3>1. Goes(uses, Place("_handleRRESubRectangles", k, NoArgs, r),
               F("RRESubrectangles", k, 0), Between(r))
      BY BodyGoes, ReadsAs
    <3> QED
      BY <3>1 DEF k
  <2> HIDE DEF g, h, p, q
  <2>10. HeaderFits(uses, v)
    BY <1>4, <1>9, <2>1 DEF HeaderFits
  <2>11. Goes(uses, Between(owed), f, p)
    BY <1>2, <2>1, <2>7, <2>10, HeaderGoes
  <2>12. CASE n = 0
    <3> DEFINE fields == <<f, g>>
    <3>1. Send(fields)
      BY <2>6, <2>12, FewFields
    <3>2. fields \in Few /\ fields[1].kind = "RectangleHeader"
      BY <2>1, <2>2, <2>5, FewAre, FirstOf
    <3>3. ASSUME Path(uses, stream, Here, Between(owed))
          PROVE  Path(uses, stream \o fields, Here, Between(r))
      BY <1>2, <2>1, <2>5, <2>8, <2>11, <2>12, <3>3, PathSent
    <3> HIDE DEF fields
    <3>4. Path(uses, stream, Here, Between(owed)) =>
            \E z : Path(uses, stream \o fields, Here, z) /\ AtEnd(z, owed', tiles')
      BY <1>7, <1>9, <3>3
    <3> QED
      BY <1>1, <1>2, <1>7, <1>9, <3>1, <3>2, <3>4, RectangleSends
  <2>13. CASE n # 0
    <3> DEFINE fields == <<f, g, h>>
    <3>1. Send(fields)
      BY <2>6, <2>13, FewFields
    <3>2. fields \in Few /\ fields[1].kind = "RectangleHeader"
      BY <2>1, <2>2, <2>5, FewAre, FirstOf
    <3>3. ASSUME Path(uses, stream, Here, Between(owed))
          PROVE  Path(uses, stream \o fields, Here, Between(r))
      <4>1. Goes(uses, p, g, q)
        BY <2>8, <2>13
      <4> QED
        BY <1>2, <2>1, <2>5, <2>9, <2>11, <3>3, <4>1, PathSent
    <3> HIDE DEF fields
    <3>4. Path(uses, stream, Here, Between(owed)) =>
            \E z : Path(uses, stream \o fields, Here, z) /\ AtEnd(z, owed', tiles')
      BY <1>7, <1>9, <3>3
    <3> QED
      BY <1>1, <1>2, <1>7, <1>9, <3>1, <3>2, <3>4, RectangleSends
  <2> QED
    BY <2>12, <2>13
<1>10. ASSUME "zrle" \in uses, tiles' = 0, NEW n \in Lengths \ {0},
              Send(<<Header("zrle", w, 0), F("ZRLELength", 4, n), F("ZRLEData", n, 0)>>)
       PROVE  SInv'
  <2> DEFINE v == [encoding |-> "zrle", w |-> w, tiles |-> 0]
             f == Header("zrle", w, 0)
             g == F("ZRLELength", 4, n)
             h == F("ZRLEData", n, 0)
             p == Place("_handleDecodeZRLE", 4, NoArgs, r)
             q == Place("_handleDecodeZRLEdata", n, NoArgs, r)
  <2>1. /\ v \in Headers /\ v.encoding = "zrle" /\ v.w = w /\ v.tiles = 0
        /\ f = F("RectangleHeader", 12, v) /\ f \in Fields
    BY <1>4, <1>5, HeaderSent
  <2>2. f.kind = "RectangleHeader"
    BY <2>1, FieldOf
  <2>3. n \in Nat
    BY SizeAssumption
  <2>4. g \in Fields /\ h \in Fields
    BY <1>6, <2>3, PlainField
  <2>5. Send(<<f, g, h>>)
    BY <1>10
  <2> HIDE DEF v, f
  <2>6. BehindHeader(v, r) = p
    BY <2>1, BehindHeaders
  <2>7. Goes(uses, p, g, q)
    BY <2>3, CountGoes
  <2>8. Goes(uses, q, h, Between(r))
    BY BodyGoes, ReadsAs
  <2> HIDE DEF g, h, p, q
  <2>9. HeaderFits(uses, v)
    BY <1>4, <1>10, <2>1 DEF HeaderFits
  <2>10. Goes(uses, Between(owed), f, p)
    BY <1>2, <2>1, <2>6, <2>9, HeaderGoes
  <2>11. ASSUME Path(uses, stream, Here, Between(owed))
         PROVE  Path(uses, stream \o <<f, g, h>>, Here, Between(r))
    BY <1>2, <2>1, <2>4, <2>7, <2>8, <2>10, <2>11, PathSent
  <2> DEFINE fields == <<f, g, h>>
  <2>12. fields \in Few /\ fields[1].kind = "RectangleHeader" /\ Send(fields)
    BY <2>1, <2>2, <2>4, <2>5, FewAre, FirstOf
  <2>13. Path(uses, stream, Here, Between(owed)) =>
          \E z : Path(uses, stream \o fields, Here, z) /\ AtEnd(z, owed', tiles')
    BY <1>7, <1>10, <2>11
  <2> HIDE DEF fields
  <2> QED
    BY <1>1, <1>2, <1>7, <1>10, <2>12, <2>13, RectangleSends
<1>11. ASSUME "hextile" \in uses, w = 1, NEW n \in 1..MaxTiles, tiles' = n,
              Send(<<Header("hextile", w, n)>>)
       PROVE  SInv'
  <2> DEFINE v == [encoding |-> "hextile", w |-> w, tiles |-> n]
             f == Header("hextile", w, n)
             a == [Of(w) EXCEPT !.tiles = n]
             p == Place("_handleDecodeHextile", 1, a, r)
  <2>0. n \in Nat /\ n # 0
    BY SizeAssumption
  <2>1. /\ v \in Headers /\ v.encoding = "hextile" /\ v.w = w /\ v.tiles = n
        /\ f = F("RectangleHeader", 12, v) /\ f \in Fields
    BY <1>4, <1>5, <2>0, HeaderSent
  <2>2. f.kind = "RectangleHeader"
    BY <2>1, FieldOf
  <2>3. Send(<<f>>)
    BY <1>11
  <2>5. a.w = 1 /\ a.tiles = n
    BY <1>11, <2>0 DEF Of, NoArgs
  <2> HIDE DEF v, f
  <2>6. BehindHeader(v, r) = p
    BY <2>1, BehindHeaders
  <2> HIDE DEF a
  <2>7. AtEnd(p, r, n)
    <3>1. p.h = "_handleDecodeHextile" /\ p.n = 1 /\ p.r = r /\ p.a = a
      BY PlaceFields
    <3> HIDE DEF p
    <3> QED
      BY <2>0, <2>5, <3>1 DEF AtEnd
  <2> HIDE DEF p
  <2>8. HeaderFits(uses, v)
    BY <1>4, <1>11, <2>0, <2>1 DEF HeaderFits
  <2>9. Goes(uses, Between(owed), f, p)
    BY <1>2, <2>1, <2>6, <2>8, HeaderGoes
  <2>10. ASSUME Path(uses, stream, Here, Between(owed))
         PROVE  Path(uses, stream \o <<f>>, Here, p)
    BY <1>2, <2>1, <2>9, <2>10, PathSent
  <2> DEFINE fields == <<f>>
  <2>11. fields \in Few /\ fields[1].kind = "RectangleHeader" /\ Send(fields)
    BY <2>1, <2>2, <2>3, FewAre, FirstOf
  <2>12. Path(uses, stream, Here, Between(owed)) =>
          \E z : Path(uses, stream \o fields, Here, z) /\ AtEnd(z, owed', tiles')
    BY <1>7, <1>11, <2>7, <2>10
  <2> HIDE DEF fields
  <2> QED
    BY <1>1, <1>2, <1>7, <1>11, <2>0, <2>11, <2>12, RectangleSends
<1> QED
  BY <1>3, <1>8, <1>9, <1>10, <1>11

\* A rectangle without pixels.
LEMMA PseudoOK ==
  ASSUME SInv, ServerPseudo PROVE SInv'
<1>1. /\ phase = "running" /\ owed > 0 /\ tiles = 0 /\ tiles' = 0
      /\ uses' = uses /\ phase' = phase
  BY DEF ServerPseudo
<1>2. /\ owed \in Nat /\ owed # 0 /\ owed - 1 \in Nat /\ stream \in Seq(Fields)
      /\ AtEnd(Between(owed - 1), owed - 1, 0) /\ AtEnd(Between(0), 0, 0)
      /\ desktop \in Widths /\ desktop \in Nat /\ width \in Nat
  BY <1>1, Fewer
<1> DEFINE r == owed - 1
<1>3. {"qemuKey", "lastRect", "desktopSize", "copyRect", "cursor"} \subseteq Known
  BY DEF Known
<1>4. {"CopyRectSource", "CursorPixels"} \subseteq Kinds
  BY DEF Kinds
<1>5. \A w \in Widths : w \in Nat
  BY SizeAssumption
<1>6. r \in Nat /\ AtEnd(Between(r), r, 0) /\ AtEnd(Between(0), 0, 0)
  BY <1>2
<1>7. ASSUME "qemuKey" \in uses, owed' = r, desktop' = desktop, grown' = grown,
             Send(<<Header("qemuKey", 0, 0)>>)
      PROVE  SInv'
  <2> DEFINE v == [encoding |-> "qemuKey", w |-> 0, tiles |-> 0]
             f == Header("qemuKey", 0, 0)
  <2>1. /\ v \in Headers /\ v.encoding = "qemuKey" /\ v.w = 0
        /\ f = F("RectangleHeader", 12, v) /\ f \in Fields
    BY <1>3, HeaderSent
  <2>2. f.kind = "RectangleHeader"
    BY <2>1, FieldOf
  <2>3. Send(<<f>>)
    BY <1>7
  <2> HIDE DEF v, f
  <2>4. BehindHeader(v, r) = Between(r)
    BY <2>1, BehindHeaders
  <2>5. HeaderFits(uses, v)
    BY <1>7, <2>1 DEF HeaderFits
  <2>6. Goes(uses, Between(owed), f, Between(r))
    BY <1>2, <2>1, <2>4, <2>5, HeaderGoes
  <2>7. ASSUME Path(uses, stream, Here, Between(owed))
        PROVE  Path(uses, stream \o <<f>>, Here, Between(r))
    BY <1>2, <2>1, <2>6, <2>7, PathSent
  <2> DEFINE fields == <<f>>
  <2>8. fields \in Few /\ fields[1].kind = "RectangleHeader" /\ Send(fields)
    BY <2>1, <2>2, <2>3, FewAre, FirstOf
  <2>9. Path(uses, stream, Here, Between(owed)) =>
          \E z : Path(uses, stream \o fields, Here, z) /\ AtEnd(z, owed', tiles')
    BY <1>1, <1>6, <1>7, <2>7
  <2> HIDE DEF fields
  <2> QED
    BY <1>1, <1>2, <1>6, <1>7, <2>8, <2>9, RectangleSends
<1>8. ASSUME "lastRect" \in uses, owed' = 0, desktop' = desktop, grown' = grown,
             Send(<<Header("lastRect", 0, 0)>>)
      PROVE  SInv'
  <2> DEFINE v == [encoding |-> "lastRect", w |-> 0, tiles |-> 0]
             f == Header("lastRect", 0, 0)
  <2>1. /\ v \in Headers /\ v.encoding = "lastRect" /\ v.w = 0
        /\ f = F("RectangleHeader", 12, v) /\ f \in Fields
    BY <1>3, HeaderSent
  <2>2. f.kind = "RectangleHeader"
    BY <2>1, FieldOf
  <2>3. Send(<<f>>)
    BY <1>8
  <2> HIDE DEF v, f
  <2>4. BehindHeader(v, r) = Between(0)
    BY <2>1, BehindHeaders
  <2>5. HeaderFits(uses, v)
    BY <1>8, <2>1 DEF HeaderFits
  <2>6. Goes(uses, Between(owed), f, Between(0))
    BY <1>2, <2>1, <2>4, <2>5, HeaderGoes
  <2>7. ASSUME Path(uses, stream, Here, Between(owed))
        PROVE  Path(uses, stream \o <<f>>, Here, Between(0))
    BY <1>2, <2>1, <2>6, <2>7, PathSent
  <2> DEFINE fields == <<f>>
  <2>8. fields \in Few /\ fields[1].kind = "RectangleHeader" /\ Send(fields)
    BY <2>1, <2>2, <2>3, FewAre, FirstOf
  <2>9. Path(uses, stream, Here, Between(owed)) =>
          \E z : Path(uses, stream \o fields, Here, z) /\ AtEnd(z, owed', tiles')
    BY <1>1, <1>6, <1>8, <2>7
  <2> HIDE DEF fields
  <2> QED
    BY <1>1, <1>2, <1>6, <1>8, <2>8, <2>9, RectangleSends
<1>9. ASSUME "desktopSize" \in uses, owed' = r, NEW w \in Widths, desktop' = w, grown => grown',
             Send(<<Header("desktopSize", w, 0)>>)
      PROVE  SInv'
  <2> DEFINE v == [encoding |-> "desktopSize", w |-> w, tiles |-> 0]
             f == Header("desktopSize", w, 0)
  <2>1. /\ v \in Headers /\ v.encoding = "desktopSize" /\ v.w = w
        /\ f = F("RectangleHeader", 12, v) /\ f \in Fields
    BY <1>3, <1>5, HeaderSent
  <2>2. f.kind = "RectangleHeader"
    BY <2>1, FieldOf
  <2>3. Send(<<f>>)
    BY <1>9
  <2> HIDE DEF v, f
  <2>4. BehindHeader(v, r) = Between(r)
    BY <2>1, BehindHeaders
  <2>5. HeaderFits(uses, v)
    BY <1>9, <2>1 DEF HeaderFits
  <2>6. Goes(uses, Between(owed), f, Between(r))
    BY <1>2, <2>1, <2>4, <2>5, HeaderGoes
  <2>7. ASSUME Path(uses, stream, Here, Between(owed))
        PROVE  Path(uses, stream \o <<f>>, Here, Between(r))
    BY <1>2, <2>1, <2>6, <2>7, PathSent
  <2> DEFINE fields == <<f>>
  <2>8. fields \in Few /\ fields[1].kind = "RectangleHeader" /\ Send(fields)
    BY <2>1, <2>2, <2>3, FewAre, FirstOf
  <2>9. Path(uses, stream, Here, Between(owed)) =>
          \E z : Path(uses, stream \o fields, Here, z) /\ AtEnd(z, owed', tiles')
    BY <1>1, <1>6, <1>9, <2>7
  <2> HIDE DEF fields
  <2> QED
    BY <1>1, <1>2, <1>6, <1>9, <2>8, <2>9, RectangleSends
<1>10. ASSUME "copyRect" \in uses, owed' = r, desktop' = desktop, grown' = grown,
              NEW w \in Widths \cap 1..desktop,
              Send(<<Header("copyRect", w, 0), F("CopyRectSource", 4, 0)>>)
       PROVE  SInv'
  <2> DEFINE v == [encoding |-> "copyRect", w |-> w, tiles |-> 0]
             f == Header("copyRect", w, 0)
             g == F("CopyRectSource", 4, 0)
             p == Place("_pumpForClient", 4, NoArgs, r)
  <2>1. /\ v \in Headers /\ v.encoding = "copyRect" /\ v.w = w
        /\ f = F("RectangleHeader", 12, v) /\ f \in Fields
    BY <1>3, <1>5, HeaderSent
  <2>2. f.kind = "RectangleHeader"
    BY <2>1, FieldOf
  <2>3. g \in Fields
    BY <1>4, PlainField
  <2>4. Send(<<f, g>>)
    BY <1>10
  <2> HIDE DEF v, f
  <2>5. BehindHeader(v, r) = p
    BY <2>1, BehindHeaders
  <2>6. Goes(uses, p, g, Between(r))
    BY BodyGoes, ReadsAs
  <2> HIDE DEF g, p
  <2>7. HeaderFits(uses, v)
    BY <1>10, <2>1 DEF HeaderFits
  <2>8. Goes(uses, Between(owed), f, p)
    BY <1>2, <2>1, <2>5, <2>7, HeaderGoes
  <2>9. ASSUME Path(uses, stream, Here, Between(owed))
        PROVE  Path(uses, stream \o <<f, g>>, Here, Between(r))
    BY <1>2, <2>1, <2>3, <2>6, <2>8, <2>9, PathSent
  <2> DEFINE fields == <<f, g>>
  <2>10. fields \in Few /\ fields[1].kind = "RectangleHeader" /\ Send(fields)
    BY <2>1, <2>2, <2>3, <2>4, FewAre, FirstOf
  <2>11. Path(uses, stream, Here, Between(owed)) =>
          \E z : Path(uses, stream \o fields, Here, z) /\ AtEnd(z, owed', tiles')
    BY <1>1, <1>6, <1>10, <2>9
  <2> HIDE DEF fields
  <2> QED
    BY <1>1, <1>2, <1>6, <1>10, <2>10, <2>11, RectangleSends
<1>11. ASSUME "cursor" \in uses, owed' = r, desktop' = desktop, grown' = grown, NEW w \in Widths,
              Send(<<Header("cursor", w, 0), F("CursorPixels", w * Bypp + (w + 7) \div 8, 0)>>)
       PROVE  SInv'
  <2> DEFINE v == [encoding |-> "cursor", w |-> w, tiles |-> 0]
             f == Header("cursor", w, 0)
             g == F("CursorPixels", w * Bypp + (w + 7) \div 8, 0)
             p == Place("_handleDecodePsuedoCursor", w * Bypp + ((w + 7) \div 8), Of(w), r)
  <2>1. /\ v \in Headers /\ v.encoding = "cursor" /\ v.w = w
        /\ f = F("RectangleHeader", 12, v) /\ f \in Fields
    BY <1>3, <1>5, HeaderSent
  <2>2. f.kind = "RectangleHeader"
    BY <2>1, FieldOf
  <2>3. g \in Fields
    <3> DEFINE l == w * Bypp + ((w + 7) \div 8)
    <3>1. l \in Nat
      BY <1>5, SizesOK
    <3> HIDE DEF l
    <3>2. F("CursorPixels", l, 0) \in Fields
      BY <1>4, <3>1, PlainField
    <3> QED
      BY <3>2 DEF l
  <2>4. Send(<<f, g>>)
    BY <1>11
  <2> HIDE DEF v, f
  <2>5. BehindHeader(v, r) = p
    BY <2>1, BehindHeaders
  <2>6. Goes(uses, p, g, Between(r))
    <3> DEFINE l == w * Bypp + ((w + 7) \div 8)
    <3> HIDE DEF l
    <3>1. Goes(uses, Place("_handleDecodePsuedoCursor", l, Of(w), r), F("CursorPixels", l, 0),
               Between(r))
      BY BodyGoes, ReadsAs
    <3> QED
      BY <3>1 DEF l
  <2> HIDE DEF g, p
  <2>7. HeaderFits(uses, v)
    BY <1>11, <2>1 DEF HeaderFits
  <2>8. Goes(uses, Between(owed), f, p)
    BY <1>2, <2>1, <2>5, <2>7, HeaderGoes
  <2>9. ASSUME Path(uses, stream, Here, Between(owed))
        PROVE  Path(uses, stream \o <<f, g>>, Here, Between(r))
    BY <1>2, <2>1, <2>3, <2>6, <2>8, <2>9, PathSent
  <2> DEFINE fields == <<f, g>>
  <2>10. fields \in Few /\ fields[1].kind = "RectangleHeader" /\ Send(fields)
    BY <2>1, <2>2, <2>3, <2>4, FewAre, FirstOf
  <2>11. Path(uses, stream, Here, Between(owed)) =>
          \E z : Path(uses, stream \o fields, Here, z) /\ AtEnd(z, owed', tiles')
    BY <1>1, <1>6, <1>11, <2>9
  <2> HIDE DEF fields
  <2> QED
    BY <1>1, <1>2, <1>6, <1>11, <2>10, <2>11, RectangleSends
<1> QED
  BY <1>7, <1>8, <1>9, <1>10, <1>11 DEF ServerPseudo

\* Behind a tile, the server has one tile fewer to send.
LEMMA TileEnds ==
  ASSUME NEW a \in Args, a.tiles # 0, a.w = 1, NEW r \in Nat
  PROVE  AtEnd(BehindTile(a, r), r, a.tiles - 1)
<1>1. CASE a.tiles = 1
  BY <1>1 DEF AtEnd, BehindTile
<1>2. CASE a.tiles # 1
  <2> DEFINE b == [a EXCEPT !.tiles = a.tiles - 1, !.sub = "none"]
             p == Place("_handleDecodeHextile", 1, b, r)
  <2>1. a.tiles - 1 \in Nat /\ a.tiles - 1 # 0
    BY <1>2, ArgsTypes
  <2>2. b.w = a.w /\ b.tiles = a.tiles - 1
    <3>1. \A t \in Nat : /\ [a EXCEPT !.tiles = t, !.sub = "none"].w = a.w
                         /\ [a EXCEPT !.tiles = t, !.sub = "none"].tiles = t
      BY DEF Args
    <3> QED
      BY <2>1, <3>1
  <2> HIDE DEF b
  <2>3. p.h = "_handleDecodeHextile" /\ p.n = 1 /\ p.r = r /\ p.a = b
    BY PlaceFields
  <2>4. BehindTile(a, r) = p
    BY <1>2 DEF BehindTile, b
  <2> HIDE DEF p
  <2> QED
    BY <2>1, <2>2, <2>3, <2>4 DEF AtEnd
<1> QED
  BY <1>1, <1>2

\* The mask of a tile.
LEMMA MaskGoes ==
  ASSUME NEW u, NEW p, p.h = "_handleDecodeHextile", p.n = 1, p.a.tiles # 0, p.a.w = 1,
         NEW v \in Masks
  PROVE  Goes(u, p, F("HextileMask", 1, v), BehindMask(p, v))
<1> DEFINE f == F("HextileMask", 1, v)
<1>1. f.kind = "HextileMask" /\ f.len = 1 /\ f.value = v
  BY FieldOf
<1> HIDE DEF f
<1>2. "_handleDecodeHextile" \in Reading
  BY DEF Reading, SessionHandlers, RectangleHandlers
<1>3. ValueFits(u, p, v)
  BY DEF ValueFits, MessageHandlers
<1>4. Behind(p, v) = BehindMask(p, v)
  BY Behinds
<1>5. Fits(u, p, f)
  BY <1>1, <1>2, <1>3, ReadsAs DEF Fits
<1> QED
  BY <1>1, <1>4, <1>5 DEF Goes, f

\* Its pixels, its colours and its subrectangles.
LEMMA TileGoes ==
  ASSUME NEW u, NEW n, NEW a, a.tiles # 0, a.w = 1, NEW r
  PROVE  /\ Goes(u, Place("_handleDecodeHextileRAW", n, a, r), F("HextileRaw", n, 0),
                 BehindTile(a, r))
         /\ Goes(u, Place("_handleDecodeHextileSubrectsFG", n, a, r),
                 F("HextileSubrectangles", n, 0), BehindTile(a, r))
         /\ Goes(u, Place("_handleDecodeHextileSubrectsColoured", n, a, r),
                 F("HextileSubrectangles", n, 0), BehindTile([a EXCEPT !.fg = TRUE], r))
         /\ \A v \in Nat : a.bg /\ (a.sub = "none" => v = 0) =>
              LET p == Place("_handleDecodeHextileSubrect", n, a, r) IN
              Goes(u, p, F("HextileColours", n, v), BehindColours(p, v))
<1>1. /\ {"_handleDecodeHextileRAW", "_handleDecodeHextileSubrectsFG"} \subseteq Reading
      /\ {"_handleDecodeHextileSubrectsColoured", "_handleDecodeHextileSubrect"} \subseteq Reading
  BY DEF Reading, SessionHandlers, RectangleHandlers
<1>2. Goes(u, Place("_handleDecodeHextileRAW", n, a, r), F("HextileRaw", n, 0), BehindTile(a, r))
  <2> DEFINE p == Place("_handleDecodeHextileRAW", n, a, r)
  <2>1. p.h = "_handleDecodeHextileRAW" /\ p.r = r /\ p.a = a
    BY PlaceFields
  <2> HIDE DEF p
  <2>2. ValueFits(u, p, 0)
    BY <2>1 DEF ValueFits, MessageHandlers
  <2>3. Goes(u, p, F(Reads("_handleDecodeHextileRAW"), n, 0), Behind(p, 0))
    BY <1>1, <2>2, GoesAt DEF p
  <2>4. Behind(p, 0) = BehindTile(a, r)
    BY <2>1, Behinds
  <2> QED
    BY <2>3, <2>4, ReadsAs DEF p
<1>3. Goes(u, Place("_handleDecodeHextileSubrectsFG", n, a, r), F("HextileSubrectangles", n, 0),
           BehindTile(a, r))
  <2> DEFINE p == Place("_handleDecodeHextileSubrectsFG", n, a, r)
  <2>1. p.h = "_handleDecodeHextileSubrectsFG" /\ p.r = r /\ p.a = a
    BY PlaceFields
  <2> HIDE DEF p
  <2>2. ValueFits(u, p, 0)
    BY <2>1 DEF ValueFits, MessageHandlers
  <2>3. Goes(u, p, F(Reads("_handleDecodeHextileSubrectsFG"), n, 0), Behind(p, 0))
    BY <1>1, <2>2, GoesAt DEF p
  <2>4. Behind(p, 0) = BehindTile(a, r)
    BY <2>1, Behinds
  <2> QED
    BY <2>3, <2>4, ReadsAs DEF p
<1>4. Goes(u, Place("_handleDecodeHextileSubrectsColoured", n, a, r),
           F("HextileSubrectangles", n, 0), BehindTile([a EXCEPT !.fg = TRUE], r))
  <2> DEFINE p == Place("_handleDecodeHextileSubrectsColoured", n, a, r)
             b == [a EXCEPT !.fg = TRUE]
  <2>1. p.h = "_handleDecodeHextileSubrectsColoured" /\ p.r = r /\ p.a = a
    BY PlaceFields
  <2> HIDE DEF p
  <2>2. ValueFits(u, p, 0)
    BY <2>1 DEF ValueFits, MessageHandlers
  <2>3. Goes(u, p, F(Reads("_handleDecodeHextileSubrectsColoured"), n, 0), Behind(p, 0))
    BY <1>1, <2>2, GoesAt DEF p
  <2>4. Behind(p, 0) = BehindTile(b, r)
    BY <2>1, Behinds
  <2> HIDE DEF b
  <2>5. Goes(u, p, F("HextileSubrectangles", n, 0), BehindTile(b, r))
    BY <2>3, <2>4, ReadsAs
  <2> QED
    BY <2>5 DEF p, b
<1>5. ASSUME NEW v \in Nat, a.bg, a.sub = "none" => v = 0
      PROVE  LET p == Place("_handleDecodeHextileSubrect", n, a, r) IN
             Goes(u, p, F("HextileColours", n, v), BehindColours(p, v))
  <2> DEFINE p == Place("_handleDecodeHextileSubrect", n, a, r)
  <2>1. p.h = "_handleDecodeHextileSubrect" /\ p.r = r /\ p.a = a
    BY PlaceFields
  <2> HIDE DEF p
  <2>2. ValueFits(u, p, v)
    BY <1>5, <2>1 DEF ValueFits, MessageHandlers
  <2>3. Goes(u, p, F(Reads("_handleDecodeHextileSubrect"), n, v), Behind(p, v))
    BY <1>1, <2>2, GoesAt DEF p
  <2>4. Behind(p, v) = BehindColours(p, v)
    BY <2>1, Behinds
  <2>5. Goes(u, p, F("HextileColours", n, v), BehindColours(p, v))
    BY <2>3, <2>4, ReadsAs
  <2> QED
    BY <2>5 DEF p
<1> QED
  BY <1>2, <1>3, <1>4, <1>5

\* A tile's fields lead from the place of a tile to the one behind it.
LEMMA TileSends ==
  ASSUME SInv, NEW fields \in Few, Send(fields), tiles > 0, tiles' = tiles - 1,
         UNCHANGED <<uses, phase, owed, desktop, grown>>,
         \A e \in Places :
           /\ e.h = "_handleDecodeHextile" /\ e.n = 1 /\ e.r = owed /\ e.a.tiles = tiles /\ e.a.w = 1
           /\ Path(uses, stream, Here, e)
           => \E a \in Args : /\ a.tiles = tiles /\ a.w = 1
                              /\ Path(uses, stream \o fields, Here, BehindTile(a, owed))
  PROVE  SInv'
<1>1. /\ stream \in Seq(Fields) /\ tiles \in Nat /\ tiles # 0 /\ tiles - 1 \in Nat /\ owed \in Nat
      /\ desktop \in Widths
  BY ServerKeeps
<1>2. ASSUME NEW e, Path(uses, stream, Here, e), AtEnd(e, owed, tiles)
      PROVE  \E z : Path(uses, stream \o fields, Here, z) /\ AtEnd(z, owed', tiles')
  <2>1. e \in Places
    BY <1>1, <1>2, PathPlaces
  <2>2. e.h = "_handleDecodeHextile" /\ e.n = 1 /\ e.r = owed /\ e.a.tiles = tiles /\ e.a.w = 1
    BY <1>1, <1>2 DEF AtEnd
  <2>3. PICK a \in Args : /\ a.tiles = tiles /\ a.w = 1
                          /\ Path(uses, stream \o fields, Here, BehindTile(a, owed))
    BY <1>2, <2>1, <2>2
  <2>4. AtEnd(BehindTile(a, owed), owed, a.tiles - 1)
    BY <1>1, <2>3, TileEnds
  <2>5. AtEnd(BehindTile(a, owed), owed', tiles')
    BY <2>3, <2>4
  <2> QED
    BY <2>3, <2>5
<1>3. /\ stream' = stream \o fields /\ wire' = wire + Bytes(fields)
      /\ UNCHANGED <<parser, session, update, deferred, lastRefresh, outcome, transport>>
      /\ requested' = requested
  BY SendServes
<1>4. requested' \in BOOLEAN
  BY SendServes
<1>5. ~GaveUp
  BY <1>1 DEF GaveUp
<1>6. /\ uses' = uses /\ phase' = phase /\ owed' = owed /\ owed' \in Nat /\ tiles' \in Nat
      /\ desktop' = desktop /\ desktop' \in Widths /\ grown' = grown
  BY <1>1
<1>7. \A e : Path(uses, stream, Here, e) /\ AtEnd(e, owed, tiles) =>
             \E z : Path(uses, stream \o fields, Here, z) /\ AtEnd(z, owed', tiles')
  BY <1>2
<1> QED
  BY <1>1, <1>3, <1>4, <1>5, <1>6, <1>7, ServesSends

\* A tile that states its colours: behind its mask the client knows the background,
\* and waits for as many bytes as the server sends.
Coloured(p, fg, sub, b) ==
  /\ b.tiles = p.a.tiles /\ b.w = 1 /\ b.bg /\ b.sub = sub
  /\ BehindMask(p, <<FALSE, TRUE, fg, sub>>)
       = Place("_handleDecodeHextileSubrect",
               Bypp + (IF fg THEN Bypp ELSE 0) + (IF sub = "none" THEN 0 ELSE 1), b, p.r)

\* Every mask with a background has such a place behind it.
LEMMA ColoursGo ==
  ASSUME NEW p \in Places, p.a.tiles # 0, p.a.w = 1, NEW fg \in BOOLEAN,
         NEW sub \in {"none", "fg", "coloured"}
  PROVE  \E b \in Args : Coloured(p, fg, sub, b)
<1> DEFINE v == <<FALSE, TRUE, fg, sub>>
           b == [p.a EXCEPT !.bg = p.a.bg \/ v[2], !.fg = p.a.fg \/ v[3], !.sub = v[4]]
           l == (IF v[2] THEN Bypp ELSE 0) + (IF v[3] THEN Bypp ELSE 0)
                  + (IF v[4] # "none" THEN 1 ELSE 0)
           k == Bypp + (IF fg THEN Bypp ELSE 0) + (IF sub = "none" THEN 0 ELSE 1)
<1>1. ~v[1] /\ v[2] /\ v[2] \in BOOLEAN
  OBVIOUS
<1>2. v[3] = fg
  OBVIOUS
<1>3. v[4] = sub
  OBVIOUS
<1>4. p.a \in Args /\ p.a.bg \in BOOLEAN /\ p.a.fg \in BOOLEAN
  BY PlaceTypes, ArgsTypes
<1> HIDE DEF v
<1>5. BehindMask(p, v) = Place("_handleDecodeHextileSubrect", l, b, p.r)
  BY <1>1 DEF BehindMask
<1>6. l = k
  <2>1. (IF v[2] THEN Bypp ELSE 0) = Bypp
    BY <1>1
  <2>2. (IF v[3] THEN Bypp ELSE 0) = (IF fg THEN Bypp ELSE 0)
    BY <1>2
  <2>3. (IF v[4] # "none" THEN 1 ELSE 0) = (IF sub = "none" THEN 0 ELSE 1)
    BY <1>3
  <2> QED
    BY <2>1, <2>2, <2>3
<1> HIDE DEF l, k
<1>7. b \in Args /\ b.tiles = p.a.tiles /\ b.w = p.a.w /\ b.bg = (p.a.bg \/ v[2]) /\ b.sub = sub
  <2> DEFINE x == p.a.bg \/ v[2]
             y == p.a.fg \/ v[3]
             z == v[4]
  <2>1. x \in BOOLEAN
    OBVIOUS
  <2>2. y \in BOOLEAN
    OBVIOUS
  <2>3. z \in {"none", "fg", "coloured"} /\ z = sub
    BY <1>3
  <2>4. b = [p.a EXCEPT !.bg = x, !.fg = y, !.sub = z]
    OBVIOUS
  <2> HIDE DEF x, y, z, b
  <2>5. b \in Args /\ b.tiles = p.a.tiles /\ b.w = p.a.w /\ b.bg = x /\ b.sub = z
    <3> DEFINE a == p.a
    <3>1. a \in Args /\ b = [a EXCEPT !.bg = x, !.fg = y, !.sub = z]
      BY <1>4, <2>4
    <3> HIDE DEF a
    <3>2. b \in Args
      BY <2>1, <2>2, <2>3, <3>1 DEF Args
    <3>3. b.tiles = a.tiles /\ b.w = a.w
      BY <3>1 DEF Args
    <3>4. b.bg = x
      BY <3>1 DEF Args
    <3>5. b.sub = z
      BY <3>1 DEF Args
    <3> QED
      BY <3>2, <3>3, <3>4, <3>5 DEF a
  <2> QED
    BY <2>3, <2>5 DEF x
<1>8. b.bg
  BY <1>1, <1>7
<1> HIDE DEF b
<1>9. b.tiles = p.a.tiles /\ b.w = 1 /\ b.sub = sub /\ b \in Args
  BY <1>7
<1>10. BehindMask(p, v) = Place("_handleDecodeHextileSubrect", k, b, p.r)
  BY <1>5, <1>6
<1> QED
  BY <1>8, <1>9, <1>10 DEF Coloured, v, k

\* The masks a server sends.
LEMMA MasksSent ==
  /\ <<TRUE, FALSE, FALSE, "none">> \in Masks
  /\ \A fg \in BOOLEAN : \A sub \in (IF fg THEN {"none", "fg"} ELSE {"none", "coloured"}) :
       /\ <<FALSE, TRUE, fg, sub>> \in Masks
       /\ sub \in {"none", "fg", "coloured"}
<1>1. <<TRUE, FALSE, FALSE, "none">> \in Masks
  BY DEF Masks
<1>2. /\ <<FALSE, TRUE, FALSE, "none">> \in Masks /\ <<FALSE, TRUE, TRUE, "none">> \in Masks
      /\ <<FALSE, TRUE, TRUE, "fg">> \in Masks /\ <<FALSE, TRUE, FALSE, "coloured">> \in Masks
  BY DEF Masks
<1>3. ASSUME NEW fg \in BOOLEAN, NEW sub \in (IF fg THEN {"none", "fg"} ELSE {"none", "coloured"})
      PROVE  <<FALSE, TRUE, fg, sub>> \in Masks /\ sub \in {"none", "fg", "coloured"}
  <2>1. CASE fg = TRUE
    <3>1. sub \in {"none", "fg"}
      BY <2>1
    <3>2. CASE sub = "none"
      BY <1>2, <2>1, <3>2
    <3>3. CASE sub = "fg"
      BY <1>2, <2>1, <3>3
    <3> QED
      BY <3>1, <3>2, <3>3
  <2>2. CASE fg = FALSE
    <3>1. sub \in {"none", "coloured"}
      BY <2>2
    <3>2. CASE sub = "none"
      BY <1>2, <2>2, <3>2
    <3>3. CASE sub = "coloured"
      BY <1>2, <2>2, <3>3
    <3> QED
      BY <3>1, <3>2, <3>3
  <2> QED
    BY <2>1, <2>2
<1> QED
  BY <1>1, <1>3

\* A tile.
LEMMA TileOK ==
  ASSUME SInv, ServerTile PROVE SInv'
<1>1. tiles > 0 /\ tiles' = tiles - 1 /\ UNCHANGED <<uses, phase, owed, desktop, grown>>
  BY DEF ServerTile
<1>2. stream \in Seq(Fields) /\ tiles \in Nat /\ tiles # 0 /\ owed \in Nat
  BY <1>1, ServerKeeps
<1>3. Bypp \in Nat /\ 1 * Bypp = Bypp
  BY SizeAssumption
<1>4. {"HextileMask", "HextileRaw", "HextileColours", "HextileSubrectangles"} \subseteq Kinds
  BY DEF Kinds
<1>5. \A v \in Masks : F("HextileMask", 1, v) \in Fields
  <2>1. \A v \in Masks : v \in Values
    BY ValuesMade
  <2> QED
    BY <1>4, <2>1, FieldMade
<1>6. ASSUME Send(<<F("HextileMask", 1, <<TRUE, FALSE, FALSE, "none">>), F("HextileRaw", Bypp, 0)>>)
      PROVE  SInv'
  <2> DEFINE v == <<TRUE, FALSE, FALSE, "none">>
             f == F("HextileMask", 1, v)
             g == F("HextileRaw", Bypp, 0)
             fields == <<f, g>>
  <2>1. v \in Masks /\ v[1]
    BY MasksSent
  <2>2. Send(fields)
    BY <1>6
  <2> HIDE DEF v
  <2>3. f \in Fields /\ g \in Fields
    BY <1>3, <1>4, <1>5, <2>1, PlainField
  <2>4. fields \in Few
    BY <2>3, FewAre
  <2>5. ASSUME NEW e \in Places, e.h = "_handleDecodeHextile", e.n = 1, e.r = owed,
               e.a.tiles = tiles, e.a.w = 1, Path(uses, stream, Here, e)
        PROVE  \E a \in Args : /\ a.tiles = tiles /\ a.w = 1
                               /\ Path(uses, stream \o fields, Here, BehindTile(a, owed))
    <3> DEFINE q == Place("_handleDecodeHextileRAW", Bypp, e.a, owed)
    <3>1. Goes(uses, e, f, BehindMask(e, v))
      BY <1>2, <2>1, <2>5, MaskGoes
    <3>2. BehindMask(e, v) = q
      BY <1>3, <2>1, <2>5 DEF BehindMask
    <3>3. Goes(uses, q, g, BehindTile(e.a, owed))
      BY <1>2, <2>5, TileGoes
    <3> HIDE DEF f, g, q
    <3>4. Path(uses, stream \o <<f, g>>, Here, BehindTile(e.a, owed))
      BY <1>2, <2>3, <2>5, <3>1, <3>2, <3>3, PathSent
    <3>5. e.a \in Args
      BY PlaceTypes
    <3> QED
      BY <2>5, <3>4, <3>5
  <2> HIDE DEF fields
  <2> QED
    BY <1>1, <2>2, <2>4, <2>5, TileSends
<1>7. ASSUME NEW fg \in BOOLEAN, NEW sub \in (IF fg THEN {"none", "fg"} ELSE {"none", "coloured"}),
             NEW n \in (IF sub = "none" THEN {0} ELSE Lengths),
             Send(<<F("HextileMask", 1, <<FALSE, TRUE, fg, sub>>),
                    F("HextileColours", Bypp + (IF fg THEN Bypp ELSE 0)
                                             + (IF sub = "none" THEN 0 ELSE 1), n)>>
                    \o IF n = 0 THEN <<>>
                       ELSE <<F("HextileSubrectangles",
                                (IF sub = "coloured" THEN Bypp + 2 ELSE 2) * n, 0)>>)
      PROVE  SInv'
  <2> DEFINE v == <<FALSE, TRUE, fg, sub>>
             k == Bypp + (IF fg THEN Bypp ELSE 0) + (IF sub = "none" THEN 0 ELSE 1)
             l == (IF sub = "coloured" THEN Bypp + 2 ELSE 2) * n
             f == F("HextileMask", 1, v)
             g == F("HextileColours", k, n)
             h == F("HextileSubrectangles", l, 0)
  <2>1. v \in Masks /\ sub \in {"none", "fg", "coloured"}
    BY MasksSent
  <2>2. n \in Nat /\ (sub = "none" => n = 0)
    BY SizeAssumption
  <2>3. k \in Nat
    BY <1>3
  <2>4. /\ l \in Nat /\ (sub = "coloured" => l = (Bypp + 2) * n)
        /\ (sub # "coloured" => l = 2 * n)
    BY <2>2, SizesOK
  <2>5. Send(<<f, g>> \o IF n = 0 THEN <<>> ELSE <<h>>)
    BY <1>7
  <2>6. ASSUME NEW e \in Places, e.a.tiles = tiles, e.a.w = 1
        PROVE  \E b \in Args : /\ b.tiles = tiles /\ b.w = 1 /\ b.bg /\ b.sub = sub
                               /\ BehindMask(e, v) = Place("_handleDecodeHextileSubrect", k, b, e.r)
    <3>1. e.a.tiles # 0
      BY <1>2, <2>6
    <3>2. sub \in {"none", "fg", "coloured"} /\ e.a.w = 1
      BY <2>1, <2>6
    <3>3. PICK b \in Args : Coloured(e, fg, sub, b)
      BY <3>1, <3>2, ColoursGo
    <3>4. b.tiles = tiles /\ b.w = 1 /\ b.sub = sub
      BY <2>6, <3>3 DEF Coloured
    <3>5. b.bg
      BY <3>3 DEF Coloured
    <3>6. BehindMask(e, v) = Place("_handleDecodeHextileSubrect", k, b, e.r)
      BY <3>3 DEF Coloured
    <3> HIDE DEF v, k
    <3> QED
      BY <3>4, <3>5, <3>6
  <2> HIDE DEF v, k, l
  <2>7. f \in Fields /\ g \in Fields /\ h \in Fields
    BY <1>4, <1>5, <2>1, <2>2, <2>3, <2>4, PlainField
  <2>8. ASSUME NEW e \in Places, e.h = "_handleDecodeHextile", e.n = 1, e.r = owed,
               e.a.tiles = tiles, e.a.w = 1, Path(uses, stream, Here, e)
        PROVE  \E a \in Args :
                 /\ a.tiles = tiles /\ a.w = 1
                 /\ n = 0 => Path(uses, stream \o <<f, g>>, Here, BehindTile(a, owed))
                 /\ n # 0 => Path(uses, stream \o <<f, g, h>>, Here, BehindTile(a, owed))
    <3>1. PICK b \in Args : /\ b.tiles = tiles /\ b.w = 1 /\ b.bg /\ b.sub = sub
                            /\ BehindMask(e, v) = Place("_handleDecodeHextileSubrect", k, b, e.r)
      BY <2>6, <2>8
    <3> DEFINE q == Place("_handleDecodeHextileSubrect", k, b, owed)
               c == [b EXCEPT !.fg = TRUE]
               x == BehindColours(q, n)
    <3>2. Goes(uses, e, f, q)
      <4>1. Goes(uses, e, f, BehindMask(e, v))
        BY <1>2, <2>1, <2>8, MaskGoes
      <4> QED
        BY <2>8, <3>1, <4>1
    <3>3. Goes(uses, q, g, x)
      BY <1>2, <2>2, <3>1, TileGoes
    <3>4. q.a = b /\ q.r = owed
      BY PlaceFields
    <3> HIDE DEF f, g, h, q
    <3>5. CASE n = 0
      <4>1. x = BehindTile(b, owed)
        BY <3>4, <3>5 DEF BehindColours
      <4> HIDE DEF x
      <4>2. Path(uses, stream \o <<f, g>>, Here, BehindTile(b, owed))
        BY <1>2, <2>7, <2>8, <3>2, <3>3, <4>1, PathSent
      <4> QED
        BY <3>1, <3>5, <4>2
    <3>6. CASE n # 0 /\ sub = "coloured"
      <4> DEFINE y == Place("_handleDecodeHextileSubrectsColoured", l, b, owed)
      <4>1. x = y
        BY <2>4, <3>1, <3>4, <3>6 DEF BehindColours
      <4>2. Goes(uses, y, h, BehindTile(c, owed))
        BY <1>2, <3>1, TileGoes DEF h
      <4>3. c \in Args /\ c.tiles = tiles /\ c.w = 1
        BY <3>1, ArgsFields
      <4> HIDE DEF x, y, c
      <4>4. Path(uses, stream \o <<f, g, h>>, Here, BehindTile(c, owed))
        BY <1>2, <2>7, <2>8, <3>2, <3>3, <4>1, <4>2, PathSent
      <4> QED
        BY <3>6, <4>3, <4>4
    <3>7. CASE n # 0 /\ sub # "coloured"
      <4> DEFINE y == Place("_handleDecodeHextileSubrectsFG", l, b, owed)
      <4>1. x = y
        BY <2>4, <3>1, <3>4, <3>7 DEF BehindColours
      <4>2. Goes(uses, y, h, BehindTile(b, owed))
        BY <1>2, <3>1, TileGoes DEF h
      <4> HIDE DEF x, y
      <4>3. Path(uses, stream \o <<f, g, h>>, Here, BehindTile(b, owed))
        BY <1>2, <2>7, <2>8, <3>2, <3>3, <4>1, <4>2, PathSent
      <4> QED
        BY <3>1, <3>7, <4>3
    <3> QED
      BY <3>5, <3>6, <3>7
  <2> HIDE DEF f, g, h
  <2>9. CASE n = 0
    <3> DEFINE fields == <<f, g>>
    <3>1. Send(fields)
      BY <2>5, <2>9, FewFields
    <3>2. fields \in Few
      BY <2>7, FewAre
    <3>3. ASSUME NEW e \in Places, e.h = "_handleDecodeHextile", e.n = 1, e.r = owed,
                 e.a.tiles = tiles, e.a.w = 1, Path(uses, stream, Here, e)
          PROVE  \E a \in Args : /\ a.tiles = tiles /\ a.w = 1
                                 /\ Path(uses, stream \o fields, Here, BehindTile(a, owed))
      BY <2>8, <2>9, <3>3
    <3> HIDE DEF fields
    <3> QED
      BY <1>1, <3>1, <3>2, <3>3, TileSends
  <2>10. CASE n # 0
    <3> DEFINE fields == <<f, g, h>>
    <3>1. Send(fields)
      BY <2>5, <2>10, FewFields
    <3>2. fields \in Few
      BY <2>7, FewAre
    <3>3. ASSUME NEW e \in Places, e.h = "_handleDecodeHextile", e.n = 1, e.r = owed,
                 e.a.tiles = tiles, e.a.w = 1, Path(uses, stream, Here, e)
          PROVE  \E a \in Args : /\ a.tiles = tiles /\ a.w = 1
                                 /\ Path(uses, stream \o fields, Here, BehindTile(a, owed))
      BY <2>8, <2>10, <3>3
    <3> HIDE DEF fields
    <3> QED
      BY <1>1, <3>1, <3>2, <3>3, TileSends
  <2> QED
    BY <2>9, <2>10
<1> QED
  BY <1>6, <1>7 DEF ServerTile

-----------------------------------------------------------------------------
(* The widths of the rectangles under way.                                 *)

\* A field that is no Raw rectangle wider than n.
Narrow(f, n) ==
  f.kind = "RectangleHeader" /\ f.value.encoding = "raw" => f.value.w <= n

\* Fields that fit, one by one.
LEMMA FitsFew ==
  ASSUME NEW n, NEW f, NEW g, NEW h, Narrow(f, n)
  PROVE  /\ FitsWidth(<<>>, n) /\ FitsWidth(<<f>>, n)
         /\ Narrow(g, n) => FitsWidth(<<f, g>>, n)
         /\ Narrow(g, n) /\ Narrow(h, n) => FitsWidth(<<f, g, h>>, n)
<1>1. /\ <<>> \in Seq({f}) /\ <<f>> \in Seq({f}) /\ <<f, g>> \in Seq({f, g})
      /\ <<f, g, h>> \in Seq({f, g, h})
  OBVIOUS
<1>2. /\ Len(<<>>) = 0 /\ Len(<<f>>) = 1 /\ Len(<<f, g>>) = 2 /\ Len(<<f, g, h>>) = 3
      /\ 1..0 = {} /\ 1..1 = {1} /\ 1..2 = {1, 2} /\ 1..3 = {1, 2, 3}
  OBVIOUS
<1>3. /\ <<f>>[1] = f /\ <<f, g>>[1] = f /\ <<f, g>>[2] = g
      /\ <<f, g, h>>[1] = f /\ <<f, g, h>>[2] = g /\ <<f, g, h>>[3] = h
  OBVIOUS
<1>4. FitsWidth(<<>>, n) /\ FitsWidth(<<f>>, n)
  BY <1>1, <1>2, <1>3 DEF FitsWidth, Narrow
<1>5. Narrow(g, n) => FitsWidth(<<f, g>>, n)
  BY <1>1, <1>2, <1>3 DEF FitsWidth, Narrow
<1>6. Narrow(g, n) /\ Narrow(h, n) => FitsWidth(<<f, g, h>>, n)
  BY <1>1, <1>2, <1>3 DEF FitsWidth, Narrow
<1> QED
  BY <1>4, <1>5, <1>6

\* Fields behind fields.
LEMMA FitsJoined ==
  ASSUME NEW n, NEW s, NEW t, FitsWidth(s, n), FitsWidth(t, n)
  PROVE  FitsWidth(s \o t, n)
<1>1. PICK S : s \in Seq(S)
  BY DEF FitsWidth
<1>2. PICK T : t \in Seq(T)
  BY DEF FitsWidth
<1> DEFINE U == S \cup T
<1>3. s \in Seq(U) /\ t \in Seq(U)
  BY <1>1, <1>2
<1> HIDE DEF U
<1>4. /\ s \o t \in Seq(U) /\ Len(s \o t) = Len(s) + Len(t) /\ Len(s) \in Nat /\ Len(t) \in Nat
      /\ \A i \in 1..Len(s) : (s \o t)[i] = s[i]
      /\ \A i \in Len(s) + 1..Len(s) + Len(t) : (s \o t)[i] = t[i - Len(s)]
  BY <1>3
<1>5. ASSUME NEW i \in 1..Len(s \o t) PROVE Narrow((s \o t)[i], n)
  <2>1. CASE i \in 1..Len(s)
    BY <1>4, <2>1 DEF FitsWidth, Narrow
  <2>2. CASE i \notin 1..Len(s)
    <3>1. i \in Len(s) + 1..Len(s) + Len(t) /\ i - Len(s) \in 1..Len(t)
      BY <1>4, <2>2
    <3> QED
      BY <1>4, <3>1 DEF FitsWidth, Narrow
  <2> QED
    BY <2>1, <2>2
<1> QED
  BY <1>4, <1>5 DEF FitsWidth, Narrow

\* Fields without their first.
LEMMA FitsTail ==
  ASSUME NEW n, NEW s, s # <<>>, FitsWidth(s, n)
  PROVE  FitsWidth(Tail(s), n)
<1>1. PICK S : s \in Seq(S)
  BY DEF FitsWidth
<1>2. /\ Tail(s) \in Seq(S) /\ Len(Tail(s)) = Len(s) - 1 /\ Len(s) \in Nat \ {0}
      /\ \A i \in 1..Len(s) - 1 : Tail(s)[i] = s[i + 1] /\ i + 1 \in 1..Len(s)
  BY <1>1, Beheaded
<1> QED
  BY <1>2 DEF FitsWidth

\* A field that is no rectangle header, and a header that is not Raw.
LEMMA NarrowFields ==
  ASSUME NEW n
  PROVE  /\ \A k, l, v : k # "RectangleHeader" => Narrow(F(k, l, v), n)
         /\ \A e, w, t : e # "raw" \/ w <= n => Narrow(Header(e, w, t), n)
<1>1. ASSUME NEW k, NEW l, NEW v PROVE F(k, l, v).kind = k /\ F(k, l, v).value = v
  BY DEF F
<1>2. ASSUME NEW e, NEW w, NEW t
      PROVE  Header(e, w, t).value.encoding = e /\ Header(e, w, t).value.w = w
  BY <1>1 DEF Header
<1>3. \A k, l, v : k # "RectangleHeader" => Narrow(F(k, l, v), n)
  BY <1>1 DEF Narrow
<1>4. \A e, w, t : e # "raw" \/ w <= n => Narrow(Header(e, w, t), n)
  BY <1>2 DEF Narrow
<1> QED
  BY <1>3, <1>4

\* The server sends fields that fit.
LEMMA SentSizes ==
  ASSUME Sizes, NEW fields, stream' = stream \o fields,
         width' = width, wrote' = wrote, transport' = transport,
         phase' = "running" => phase = "running", grown => grown',
         desktop <= width /\ ~grown' => desktop' <= width /\ FitsWidth(fields, width)
  PROVE  Sizes'
<1> SUFFICES ASSUME transport = "open", phase = "running", wrote = <<"encodings">>, ~grown'
             PROVE  desktop' <= width /\ FitsWidth(stream \o fields, width)
  BY DEF Sizes
<1>1. desktop <= width /\ FitsWidth(stream, width)
  BY DEF Sizes
<1> QED
  BY <1>1, FitsJoined

\* So it does, in whatever it sends after the startup.
LEMMA SendSizes ==
  ASSUME Sizes, NEW fields, Send(fields), phase' = "running" => phase = "running",
         grown => grown',
         desktop <= width /\ ~grown' => desktop' <= width /\ FitsWidth(fields, width)
  PROVE  Sizes'
<1>1. /\ stream' = stream \o fields
      /\ width' = width /\ wrote' = wrote /\ transport' = transport
  BY DEF Send, vars, session
<1> QED
  BY <1>1, SentSizes

\* Rectangles with pixels are not wider than the desktop.
LEMMA PixelsSized ==
  ASSUME SInv, Sizes, ServerPixels PROVE Sizes'
<1>1. phase' = phase /\ grown' = grown /\ desktop' = desktop
  BY DEF ServerPixels
<1>2. PICK w \in Widths \cap 1..desktop :
        \/ Send(<<Header("raw", w, 0), F("RawPixels", w * Bypp, 0)>>)
        \/ \E n \in Lengths :
             Send(<<Header("rre", w, 0), F("RREHeader", 4 + Bypp, n)>>
                    \o IF n = 0 THEN <<>> ELSE <<F("RRESubrectangles", (8 + Bypp) * n, 0)>>)
        \/ \E n \in Lengths \ {0} :
             Send(<<Header("zrle", w, 0), F("ZRLELength", 4, n), F("ZRLEData", n, 0)>>)
        \/ \E n \in 1..MaxTiles : Send(<<Header("hextile", w, n)>>)
  BY DEF ServerPixels
<1>3. desktop <= width => w <= width
  <2>1. desktop \in Nat /\ width \in Nat
    BY SizeAssumption DEF SInv, SessionTypes, ServerTypes, ClientTypes
  <2> QED
    BY <2>1
<1>4. \A fields : Send(fields) /\ (desktop <= width => FitsWidth(fields, width)) => Sizes'
  BY <1>1, SendSizes
<1> DEFINE raw == Header("raw", w, 0)
           rre == Header("rre", w, 0)
           zrle == Header("zrle", w, 0)
<1>5. /\ desktop <= width => Narrow(raw, width)
      /\ Narrow(rre, width) /\ Narrow(zrle, width)
      /\ \A n : Narrow(Header("hextile", w, n), width)
      /\ \A l, v : /\ Narrow(F("RawPixels", l, v), width) /\ Narrow(F("RREHeader", l, v), width)
                   /\ Narrow(F("RRESubrectangles", l, v), width)
                   /\ Narrow(F("ZRLELength", l, v), width) /\ Narrow(F("ZRLEData", l, v), width)
  BY <1>3, NarrowFields
<1> HIDE DEF raw, rre, zrle
<1>6. CASE Send(<<raw, F("RawPixels", w * Bypp, 0)>>)
  <2>1. desktop <= width => FitsWidth(<<raw, F("RawPixels", w * Bypp, 0)>>, width)
    BY <1>5, FitsFew
  <2> QED
    BY <1>4, <1>6, <2>1
<1>7. ASSUME NEW n \in Lengths,
             Send(<<rre, F("RREHeader", 4 + Bypp, n)>>
                    \o IF n = 0 THEN <<>> ELSE <<F("RRESubrectangles", (8 + Bypp) * n, 0)>>)
      PROVE  Sizes'
  <2> DEFINE head == <<rre, F("RREHeader", 4 + Bypp, n)>>
             rest == IF n = 0 THEN <<>> ELSE <<F("RRESubrectangles", (8 + Bypp) * n, 0)>>
  <2>1. FitsWidth(head, width)
    BY <1>5, FitsFew
  <2>2. FitsWidth(rest, width)
    BY <1>5, FitsFew
  <2> HIDE DEF head, rest
  <2>3. FitsWidth(head \o rest, width)
    BY <2>1, <2>2, FitsJoined
  <2>4. Send(head \o rest)
    BY <1>7 DEF head, rest
  <2> QED
    BY <1>4, <2>3, <2>4
<1>8. ASSUME NEW n, Send(<<zrle, F("ZRLELength", 4, n), F("ZRLEData", n, 0)>>) PROVE Sizes'
  <2>1. FitsWidth(<<zrle, F("ZRLELength", 4, n), F("ZRLEData", n, 0)>>, width)
    BY <1>5, FitsFew
  <2> QED
    BY <1>4, <1>8, <2>1
<1>9. ASSUME NEW n, Send(<<Header("hextile", w, n)>>) PROVE Sizes'
  <2>1. FitsWidth(<<Header("hextile", w, n)>>, width)
    BY <1>5, FitsFew
  <2> QED
    BY <1>4, <1>9, <2>1
<1> QED
  BY <1>2, <1>6, <1>7, <1>8, <1>9 DEF raw, rre, zrle

\* A tile has no rectangle header.
LEMMA TileSized ==
  ASSUME Sizes, ServerTile PROVE Sizes'
<1>1. phase' = phase /\ grown' = grown /\ desktop' = desktop
  BY DEF ServerTile
<1>4. \A fields : Send(fields) /\ FitsWidth(fields, width) => Sizes'
  BY <1>1, SendSizes
<1>5. \A l, v : /\ Narrow(F("HextileMask", l, v), width) /\ Narrow(F("HextileRaw", l, v), width)
                /\ Narrow(F("HextileColours", l, v), width)
                /\ Narrow(F("HextileSubrectangles", l, v), width)
  BY NarrowFields
<1>6. CASE Send(<<F("HextileMask", 1, <<TRUE, FALSE, FALSE, "none">>), F("HextileRaw", Bypp, 0)>>)
  <2>1. FitsWidth(<<F("HextileMask", 1, <<TRUE, FALSE, FALSE, "none">>), F("HextileRaw", Bypp, 0)>>,
                  width)
    BY <1>5, FitsFew
  <2> QED
    BY <1>4, <1>6, <2>1
<1>7. ASSUME NEW x, NEW l, NEW n, NEW m,
             Send(<<F("HextileMask", 1, x), F("HextileColours", l, n)>>
                    \o IF n = 0 THEN <<>> ELSE <<F("HextileSubrectangles", m, 0)>>)
      PROVE  Sizes'
  <2> DEFINE head == <<F("HextileMask", 1, x), F("HextileColours", l, n)>>
             rest == IF n = 0 THEN <<>> ELSE <<F("HextileSubrectangles", m, 0)>>
  <2>1. FitsWidth(head, width)
    BY <1>5, FitsFew
  <2>2. FitsWidth(rest, width)
    BY <1>5, FitsFew
  <2> HIDE DEF head, rest
  <2>3. FitsWidth(head \o rest, width)
    BY <2>1, <2>2, FitsJoined
  <2>4. Send(head \o rest)
    BY <1>7 DEF head, rest
  <2> QED
    BY <1>4, <2>3, <2>4
<1> QED
  BY <1>6, <1>7 DEF ServerTile

\* A rectangle without pixels is not Raw, and a desktop that outgrew ServerInit
\* is known to have.
LEMMA PseudoSized ==
  ASSUME SInv, Sizes, ServerPseudo PROVE Sizes'
<1>1. phase' = phase
  BY DEF ServerPseudo
<1>2. width \in Nat /\ (\A w \in Widths : w \in Nat)
  BY SizeAssumption DEF SInv, SessionTypes, ClientTypes
<1>3. ASSUME NEW fields, Send(fields), FitsWidth(fields, width), grown => grown',
             desktop <= width /\ ~grown' => desktop' <= width
      PROVE  Sizes'
  <2>1. desktop <= width /\ ~grown' => desktop' <= width /\ FitsWidth(fields, width)
    BY <1>3
  <2>2. phase' = "running" => phase = "running"
    BY <1>1
  <2> HIDE DEF FitsWidth
  <2> QED
    BY <1>3, <2>1, <2>2, SendSizes
<1>4. \A w, l, v : /\ Narrow(Header("qemuKey", w, 0), width) /\ Narrow(Header("lastRect", w, 0), width)
                   /\ Narrow(Header("desktopSize", w, 0), width)
                   /\ Narrow(Header("copyRect", w, 0), width) /\ Narrow(Header("cursor", w, 0), width)
                   /\ Narrow(F("CopyRectSource", l, v), width) /\ Narrow(F("CursorPixels", l, v), width)
  BY NarrowFields
<1>5. CASE UNCHANGED <<desktop, grown>> /\ Send(<<Header("qemuKey", 0, 0)>>)
  BY <1>3, <1>4, <1>5, FitsFew
<1>6. CASE UNCHANGED <<desktop, grown>> /\ Send(<<Header("lastRect", 0, 0)>>)
  BY <1>3, <1>4, <1>6, FitsFew
<1>7. ASSUME NEW w \in Widths, desktop' = w, grown' = (grown \/ w > width),
             Send(<<Header("desktopSize", w, 0)>>)
      PROVE  Sizes'
  <2>1. ~grown' => w <= width
    <3>1. w > width => grown'
      BY <1>7
    <3>2. w > width \/ w <= width
      BY <1>2
    <3> QED
      BY <3>1, <3>2
  <2>2. FitsWidth(<<Header("desktopSize", w, 0)>>, width)
    BY <1>4, FitsFew
  <2> QED
    BY <1>3, <1>7, <2>1, <2>2
<1>8. ASSUME UNCHANGED <<desktop, grown>>, NEW w,
             Send(<<Header("copyRect", w, 0), F("CopyRectSource", 4, 0)>>)
      PROVE  Sizes'
  BY <1>3, <1>4, <1>8, FitsFew
<1>9. ASSUME UNCHANGED <<desktop, grown>>, NEW w, NEW l,
             Send(<<Header("cursor", w, 0), F("CursorPixels", l, 0)>>)
      PROVE  Sizes'
  BY <1>3, <1>4, <1>9, FitsFew
<1> QED
  BY <1>5, <1>6, <1>7, <1>8, <1>9 DEF ServerPseudo

\* The other messages have no rectangle.
LEMMA MessageSized ==
  ASSUME Sizes, ServerMessage PROVE Sizes'
<1>1. phase = "running" /\ grown' = grown /\ desktop' = desktop
  BY DEF ServerMessage, ServerPhase
<1>2. \A fields : Send(fields) /\ FitsWidth(fields, width) => Sizes'
  BY <1>1, SendSizes
<1>3. \A l, v : /\ Narrow(F("MessageType", l, v), width) /\ Narrow(F("CutTextHeader", l, v), width)
                /\ Narrow(F("CutText", l, v), width) /\ Narrow(F("ColourMapHeader", l, v), width)
                /\ Narrow(F("ColourMap", l, v), width)
  BY NarrowFields
<1>4. CASE Send(<<F("MessageType", 1, "bell")>>)
  BY <1>2, <1>3, <1>4, FitsFew
<1>5. ASSUME NEW n,
             Send(<<F("MessageType", 1, "serverCutText"), F("CutTextHeader", 7, n),
                    F("CutText", n, 0)>>)
      PROVE  Sizes'
  BY <1>2, <1>3, <1>5, FitsFew
<1>6. ASSUME NEW n,
             Send(<<F("MessageType", 1, "setColourMapEntries"), F("ColourMapHeader", 5, n),
                    F("ColourMap", 6 * n, 0)>>)
      PROVE  Sizes'
  BY <1>2, <1>3, <1>6, FitsFew
<1> QED
  BY <1>4, <1>5, <1>6 DEF ServerMessage

\* Nor has the head of an update.
LEMMA UpdateSized ==
  ASSUME Sizes, ServerUpdate PROVE Sizes'
<1>1. PICK n : stream' = stream \o <<F("MessageType", 1, "framebufferUpdate"), F("UpdateHeader", 3, n)>>
  BY DEF ServerUpdate
<1>2. FitsWidth(<<F("MessageType", 1, "framebufferUpdate"), F("UpdateHeader", 3, n)>>, width)
  <2>1. \A l, v : Narrow(F("MessageType", l, v), width) /\ Narrow(F("UpdateHeader", l, v), width)
    BY NarrowFields
  <2> QED
    BY <2>1, FitsFew
<1>3. /\ width' = width /\ wrote' = wrote /\ transport' = transport
      /\ phase' = phase /\ grown' = grown /\ desktop' = desktop
  BY DEF ServerUpdate, session
<1> QED
  BY <1>1, <1>2, <1>3, SentSizes

\* The startup ends with a desktop of the size in ServerInit and nothing under way.
LEMMA StartsSized ==
  ASSUME SInv, Starts, transport = "open", ClientHandles, wrote' = <<"encodings">>
  PROVE  width' = desktop' /\ stream' = <<>> /\ desktop' \in Nat
<1>1. SessionTypes /\ InFrame /\ wrote # <<"encodings">>
  BY DEF SInv, ClientHandles, Starts
<1>2. PICK n \in Lengths :
        \/ /\ At("_handleServerInit", 24)
           /\ stream = <<F("ServerInit", 24, <<desktop, n>>), F("Name", n, 0)>>
        \/ At("_handleServerName", n) /\ stream = <<F("Name", n, 0)>> /\ width = desktop
  BY DEF Starts
<1>3. expectedHandler \in {"_handleServerInit", "_handleServerName"}
  BY <1>2 DEF At
<1>4. /\ Handle(Head(stream).value) /\ stream' = Tail(stream) /\ UNCHANGED <<wire, server>>
  BY <1>1, <1>3, StartupCalls DEF InitHandlers
<1>5. CASE expectedHandler = "_handleServerInit"
  <2>1. Head(stream).value = <<desktop, n>>
    BY <1>2, <1>5, Heads, FieldOf DEF At
  <2>2. ServerInit(<<desktop, n>>[1], <<desktop, n>>[2])
    BY <1>4, <1>5, <2>1, StartupDispatch
  <2> QED
    BY <1>1, <2>2 DEF ServerInit
<1>6. CASE expectedHandler = "_handleServerName"
  <2>1. stream = <<F("Name", n, 0)>> /\ width = desktop
    BY <1>2, <1>6 DEF At
  <2>2. stream' = <<>>
    BY <1>4, <2>1, Heads
  <2>3. ServerName
    BY <1>4, <1>6, StartupDispatch
  <2>4. width' = width
    BY <2>3 DEF ServerName, Raise, session
  <2>5. desktop' = desktop /\ desktop \in Nat
    BY <1>1, <1>4, SizeAssumption DEF SessionTypes, ServerTypes, server
  <2> QED
    BY <2>1, <2>2, <2>4, <2>5
<1> QED
  BY <1>3, <1>5, <1>6

\* A handler call takes a field from those under way.
LEMMA HandlesSized ==
  ASSUME SInv, Sizes, ClientHandles, transport = "open" PROVE Sizes'
<1>1. stream # <<>> /\ stream' = Tail(stream) /\ UNCHANGED server
  BY DEF ClientHandles, InFrame
<1>2. CASE Serves
  <2>1. width' = width
    BY <1>2, ServesHandles
  <2>2. phase = "running" /\ wrote = <<"encodings">>
    BY <1>2 DEF Serves
  <2> QED
    BY <1>1, <2>1, <2>2, FitsTail DEF Sizes, server
<1>3. CASE Starts
  <2> SUFFICES ASSUME wrote' = <<"encodings">>
               PROVE  desktop' <= width' /\ FitsWidth(stream', width')
    BY DEF Sizes
  <2>1. width' = desktop' /\ stream' = <<>> /\ desktop' \in Nat
    BY <1>3, StartsSized
  <2>2. FitsWidth(<<>>, width')
    <3>1. Narrow(F("Name", 0, 0), width')
      BY NarrowFields
    <3> QED
      BY <3>1, FitsFew
  <2> QED
    BY <2>1, <2>2
<1>4. CASE Startup /\ ~Starts
  BY <1>1, <1>4 DEF Startup, Greets, Offers, Challenges, Accepts, Refuses, Sizes, server
<1> QED
  BY <1>2, <1>3, <1>4 DEF SInv, InStep

\* Raw rectangles keep to the size in ServerInit while the desktop does.
LEMMA SizesKept ==
  ASSUME SInv, Sizes, [SessionNext]_svars PROVE Sizes'
<1>1. CASE ServerHandshake
  <2>1. phase' # "running" \/ wrote' # <<"encodings">>
    <3>1. ServerGreets \/ ServerOffers \/ ServerChallenges \/ ServerJudges => phase' # "running"
      BY DEF ServerGreets, ServerOffers, ServerChallenges, ServerJudges, ServerPhase
    <3>2. ServerStarts => wrote' # <<"encodings">>
      <4>1. ServerStarts => wrote' = wrote
        BY DEF ServerStarts, Send, vars, session
      <4>2. <<"init">> # <<"encodings">> /\ <<"none", "init">> # <<"encodings">>
        OBVIOUS
      <4> QED
        BY <4>1, <4>2 DEF ServerStarts
    <3> QED
      BY <1>1, <3>1, <3>2 DEF ServerHandshake
  <2> QED
    BY <2>1 DEF Sizes
<1>2. CASE ServerMessage \/ ServerAnswers \/ ServerPseudo
  BY <1>2, MessageSized, UpdateSized, PixelsSized, TileSized, PseudoSized DEF ServerAnswers
<1>3. ASSUME UNCHANGED <<stream, server, session>>, transport' = "open" => transport = "open"
      PROVE  Sizes'
  BY <1>3 DEF Sizes, server, session
<1>4. CASE \E n \in Chunks : Deliver(n)
  BY <1>3, <1>4 DEF Deliver, DataReceived
<1>5. CASE ClientHandles
  <2>1. transport = "open" \/ GaveUp \/ transport = "closed" \/ aborted
    BY DEF SInv, InStep, SessionTypes, ClientTypes
  <2>2. stream # <<>>
    BY <1>5 DEF ClientHandles, InFrame
  <2>3. pumping
    BY <1>5, HandlesPump
  <2>4. transport = "open"
    BY <2>1, <2>2, <2>3 DEF GaveUp, SInv, Blocks
  <2> QED
    BY <1>5, <2>4, HandlesSized
<1>6. CASE ClientReenters
  <2>1. UNCHANGED <<stream, server, session>> /\ (transport' = "open" => transport = "open")
    BY <1>6 DEF ClientReenters, ConnMessage, AuthFailedMessage, GiveUp, Raise, LoseConnection
  <2> QED
    BY <1>3, <2>1
<1>7. CASE ClientWaits
  BY <1>3, <1>7 DEF ClientWaits, ShortGreeting, Handshake
<1>8. CASE ClientRefreshes
  BY <1>3, <1>8 DEF ClientRefreshes, RefreshScreen
<1>9. CASE HangUp
  BY <1>9 DEF HangUp, ConnectionLost, Sizes
<1>10. CASE UNCHANGED svars
  BY <1>3, <1>10 DEF svars, vars
<1> QED
  BY <1>1, <1>2, <1>4, <1>5, <1>6, <1>7, <1>8, <1>9, <1>10 DEF SessionNext

-----------------------------------------------------------------------------
(* The theorems.                                                           *)

\* The session starts in step.
LEMMA StartsInStep ==
  ASSUME SessionInit PROVE SInv
<1>1. /\ Init /\ uses \in ServerUses /\ phase = "start" /\ stream = <<>> /\ wire = 0
      /\ owed = 0 /\ tiles = 0 /\ desktop \in Widths
  BY DEF SessionInit
<1>2. ClientTypes
  <2>1. /\ packet = 0 /\ expectedLen = 12 /\ args = NoArgs /\ version = 0 /\ width = 0
        /\ rectangles = 0 /\ rectanglePos = 0 /\ factoryDeferred = "pending" /\ transport = "open"
    BY <1>1 DEF Init
  <2>2. pumping \in BOOLEAN /\ aborted \in BOOLEAN /\ painted \in BOOLEAN
    BY <1>1 DEF Init
  <2>3. deferred \in BOOLEAN /\ requested \in BOOLEAN
    BY <1>1 DEF Init
  <2> QED
    BY <2>1, <2>2, <2>3, NoArgsOK DEF ClientTypes
<1>3. ServerTypes
  <2>1. <<>> \in Seq(Fields)
    OBVIOUS
  <2> QED
    BY <1>1, <2>1 DEF ServerTypes
<1>4. Blocks
  BY <1>1 DEF Init, Blocks
<1>5. Startup
  <2>1. Greets
    BY <1>1 DEF Init, Greets, At
  <2> QED
    BY <1>1, <2>1 DEF Init, Startup
<1>6. InStep
  <2>1. Total(stream, packet + wire)
    <3>1. packet + wire = 0
      BY <1>1 DEF Init
    <3> QED
      BY <1>1, <3>1, TotalNothing
  <2>2. transport = "open" /\ reported = "none"
    BY <1>1 DEF Init
  <2> QED
    BY <1>5, <2>1, <2>2 DEF InStep
<1>7. RequestOutstanding
  BY <1>1 DEF Init, RequestOutstanding
<1>8. Painting
  <2>1. Paints
    BY <1>1 DEF Init, Paints, HextileHandlers
  <2> QED
    BY <1>1, <2>1 DEF Init, Painting
<1>9. ServerUnderstood
  BY <1>1 DEF Init, ServerUnderstood
<1> QED
  BY <1>2, <1>3, <1>4, <1>6, <1>7, <1>8, <1>9 DEF SInv, SessionTypes

\* It stays in step while nothing happens.
LEMMA StuttersInStep ==
  ASSUME SInv, UNCHANGED svars PROVE SInv'
<1>1. /\ UNCHANGED <<parser, session, update, deferred, lastRefresh, outcome, transport>>
      /\ requested' = requested
      /\ stream' = stream /\ wire' = wire /\ uses' = uses /\ phase' = phase
      /\ owed' = owed /\ tiles' = tiles /\ desktop' = desktop /\ grown' = grown
  BY DEF svars, server, vars, refresh
<1>2. SessionTypes /\ InStep /\ RequestOutstanding
  BY DEF SInv
<1>3. UNCHANGED Waiting
  BY <1>1 DEF Waiting, parser, session, update
<1>4. requested' \in BOOLEAN
  BY <1>1, <1>2 DEF SessionTypes, ClientTypes
<1>5. ServerTypes'
  BY <1>1, <1>2 DEF SessionTypes, ServerTypes
<1>6. packet' = packet /\ deferred' = deferred /\ expectedHandler' = expectedHandler
  BY <1>1 DEF parser
<1>7. factoryDeferred' = factoryDeferred /\ reported' = reported /\ aborted' = aborted
  BY <1>1 DEF outcome, parser
<1>8. RequestOutstanding'
  BY <1>1, <1>2, <1>6 DEF RequestOutstanding
<1>9. ASSUME transport = "open" PROVE (Startup' \/ Serves') /\ Total(stream', packet + wire')
  <2>1. (Startup \/ Serves) /\ Total(stream, packet + wire)
    BY <1>2, <1>9 DEF InStep
  <2>2. Startup => ~deferred'
    BY <1>6 DEF Startup
  <2> QED
    BY <1>1, <1>3, <1>7, <2>1, <2>2, Undisturbed
<1>10. CASE transport = "closing" /\ ~aborted
  <2>1. GaveUp'
    BY <1>2, <1>3, <1>7, <1>10, Undisturbed DEF InStep, GaveUp
  <2>2. InStep'
    BY <1>1, <1>10, <2>1 DEF InStep
  <2>3. ClientTypes'
    BY <1>1, <1>2 DEF SessionTypes, ClientTypes, parser, session, update, outcome
  <2>4. Blocks' /\ Painting'
    BY <1>1 DEF SInv, Blocks, Painting, Paints, parser, update
  <2>5. Benign => ServerUnderstood'
    BY <1>1 DEF SInv, ServerUnderstood, parser, outcome
  <2> QED
    BY <1>5, <1>8, <2>2, <2>3, <2>4, <2>5 DEF SInv, SessionTypes
<1>11. CASE ~(transport = "closing" /\ ~aborted)
  BY <1>1, <1>4, <1>5, <1>8, <1>9, <1>11, ServerStep
<1> QED
  BY <1>10, <1>11

\* Every step keeps client and server in step.
LEMMA StaysInStep ==
  ASSUME SInv, Sizes, [SessionNext]_svars PROVE SInv'
<1>1. CASE ServerHandshake
  BY <1>1, HandshakeOK
<1>2. CASE ServerMessage
  BY <1>2, MessageOK
<1>3. CASE ServerAnswers
  BY <1>3, UpdateHeadOK, PixelsOK, TileOK DEF ServerAnswers
<1>4. CASE ServerPseudo
  BY <1>4, PseudoOK
<1>5. CASE \E n \in Chunks : Deliver(n)
  BY <1>5, DeliverOK
<1>6. CASE ClientHandles
  BY <1>6, HandlesOK
<1>7. CASE ClientReenters
  BY <1>7, ReentersOK
<1>8. CASE ClientWaits
  BY <1>8, WaitsOK
<1>9. CASE ClientRefreshes
  BY <1>9, RefreshesOK
<1>10. CASE HangUp
  BY <1>10, HangUpOK
<1>11. CASE UNCHANGED svars
  BY <1>11, StuttersInStep
<1> QED
  BY <1>1, <1>2, <1>3, <1>4, <1>5, <1>6, <1>7, <1>8, <1>9, <1>10, <1>11 DEF SessionNext

\* The inductive invariant: as long as the connection is open, the fields under
\* way lead from the client's parser to the server, and their bytes are those
\* buffered by dataReceived and those on the wire.
THEOREM SessionInStep == SessionSpec => [](SInv /\ Sizes)
<1>1. SessionInit => SInv /\ Sizes
  BY StartsInStep DEF SessionInit, Sizes
<1>2. SInv /\ Sizes /\ [SessionNext]_svars => (SInv /\ Sizes)'
  BY StaysInStep, SizesKept
<1> QED
  BY <1>1, <1>2, PTL DEF SessionSpec

\* However the stream is cut, every block that _handleExpected hands to a handler
\* is exactly one field of the kind it unpacks, in every version, security type
\* and encoding, until the client gives up.
THEOREM FramesAgree == SessionSpec => []FramingAgreed
<1>1. SInv => FramingAgreed
  BY Framed
<1> QED
  BY <1>1, SessionInStep, PTL

\* A client that waits in refreshScreen has a request with the server, or the
\* answer to one is on its way: commitUpdate asks again when it must.
THEOREM RequestsAreOutstanding == SessionSpec => []RequestOutstanding
<1>1. SInv => RequestOutstanding
  BY DEF SInv
<1> QED
  BY <1>1, SessionInStep, PTL

\* commitUpdate completes a refresh only after an update that painted the screen,
\* for servers that send no cursor shape and no CopyRect.
THEOREM RefreshesPaint == SessionSpec => []RefreshPainted
<1>1. SInv => RefreshPainted
  BY DEF SInv, Painting, RefreshPainted
<1> QED
  BY <1>1, SessionInStep, PTL

\* A client with memory for its rectangles and a usable pixel format never aborts
\* on a server that follows the protocol, and reports an error of the protocol
\* only when the server refused the connection, until the desktop outgrows the
\* size in ServerInit: a wider Raw rectangle then does not fit _rectBuffer.
THEOREM ServerIsUnderstood ==
  ASSUME ~MemoryErrors, RequestedFormatUsable
  PROVE  SessionSpec => []ServerUnderstood
<1>1. SInv => ServerUnderstood
  BY DEF SInv, Benign
<1> QED
  BY <1>1, SessionInStep, PTL
=============================================================================
