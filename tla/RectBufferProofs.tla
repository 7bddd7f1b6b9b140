-------------------------- MODULE RectBufferProofs ---------------------------
(***************************************************************************)
(* RectBuffer implements Canvas, for every framebuffer and all colours.    *)
(***************************************************************************)
EXTENDS RectBuffer, TLAPS

-----------------------------------------------------------------------------
(* Row-major addresses.                                                    *)

\* A later row starts after an earlier one has ended.
LEMMA RowsApart ==
  ASSUME NEW n \in Nat, NEW a \in Int, NEW b \in Int, a < b
  PROVE  a * n + n <= b * n
<1> DEFINE d == b - a - 1
<1>1. d \in Nat /\ b = a + d + 1 OBVIOUS
<1>2. d * n >= 0 BY <1>1
<1>3. b * n = a * n + d * n + n BY <1>1
<1> QED BY <1>2, <1>3, <1>1

\* The address of a pixel tells its column and its row.
LEMMA AddressUnique ==
  ASSUME NEW n \in Nat, NEW a \in Int, NEW b \in Int,
         NEW c \in 0 .. n - 1, NEW d \in 0 .. n - 1, a * n + c = b * n + d
  PROVE  a = b /\ c = d
<1>1. ~(a < b) BY RowsApart
<1>2. ~(b < a) BY RowsApart
<1> QED BY <1>1, <1>2

\* A pixel of the rectangle is stored within the rectangle's bytes.
LEMMA AddressInside ==
  ASSUME NEW n \in Nat, NEW m \in Nat, NEW c \in 0 .. n - 1, NEW r \in 0 .. m - 1
  PROVE  r * n + c \in 0 .. n * m - 1
<1>1. r * n + n <= m * n BY RowsApart
<1>2. r * n >= 0 BY Z3
<1>3. m * n = n * m OBVIOUS
<1>4. r * n \in Int OBVIOUS
<1> QED BY <1>1, <1>2, <1>3, <1>4

-----------------------------------------------------------------------------
\* What a write should do: a pixel of the area gets the block's, every other one
\* keeps its own.
Writes(buf, new, x, y, w, h, src) ==
  \A c \in 0 .. width - 1, r \in 0 .. height - 1 :
    new[r * width + c] = IF c \in x .. x + w - 1 /\ r \in y .. y + h - 1
                           THEN src[(r - y) * w + (c - x)] ELSE buf[r * width + c]

\* Both paths of a write do that.
LEMMA WrittenPixel ==
  ASSUME NEW n \in Nat, NEW buf \in Block(n), width \in Nat, height \in Nat, Nbytes <= n,
         NEW x \in Int, NEW y \in Int, NEW w \in Int, NEW h \in Int,
         CheckRect(x, y, w, h), NEW src \in Block(w * h)
  PROVE  /\ Written(buf, x, y, w, h, src) \in Block(n)
         /\ Writes(buf, Written(buf, x, y, w, h, src), x, y, w, h, src)
<1> DEFINE At(i, r) == i \in (y + r) * width + x .. (y + r) * width + x + w - 1
<1>0. x \in Nat /\ y \in Nat /\ w \in Nat /\ h \in Nat /\ x + w <= width /\ y + h <= height
  BY DEF CheckRect
<1>1. DOMAIN buf = 0 .. n - 1 /\ \A i \in 0 .. n - 1 : buf[i] \in Colours BY DEF Block
<1>2. \A i \in 0 .. w * h - 1 : src[i] \in Colours BY DEF Block
<1>3. ASSUME NEW c \in 0 .. width - 1, NEW r \in 0 .. height - 1
      PROVE  r * width + c \in 0 .. n - 1
  BY <1>3, AddressInside DEF Nbytes
<1>4. CASE x = 0 /\ w = width
  <2> DEFINE W == [i \in 0 .. n - 1 |-> IF i \in y * width .. y * width + w * h - 1
                                          THEN src[i - y * width] ELSE buf[i]]
  <2>1. Written(buf, x, y, w, h, src) = W BY <1>4, <1>1 DEF Written
  <2>2. y * width \in Int /\ w * h \in Int BY <1>0
  <2>3. W \in Block(n) BY <1>1, <1>2, <2>2 DEF Block
  <2>4. ASSUME NEW c \in 0 .. width - 1, NEW r \in 0 .. height - 1
        PROVE  W[r * width + c] = IF c \in x .. x + w - 1 /\ r \in y .. y + h - 1
                                    THEN src[(r - y) * w + (c - x)] ELSE buf[r * width + c]
    <3> DEFINE i == r * width + c
               top == y * width
               area == w * h
    <3>1. i \in 0 .. n - 1 BY <1>3
    <3>2. i - top = (r - y) * w + (c - x) BY <1>4, <1>0
    <3>3. (y + h) * width = top + area BY <1>0, <1>4
    <3>4. i \in Int /\ top \in Int /\ area \in Int /\ r * width = i - c BY <1>0
    <3>5. i \in top .. top + area - 1 <=> c \in x .. x + w - 1 /\ r \in y .. y + h - 1
      <4>1. CASE r \in y .. y + h - 1
        <5>1. top <= r * width BY <4>1, <1>0, RowsApart
        <5>2. r * width + width <= (y + h) * width BY <4>1, <1>0, RowsApart
        <5> HIDE DEF i, top, area
        <5> QED BY <4>1, <5>1, <5>2, <3>3, <3>4, <1>4, <1>0
      <4>2. CASE r < y
        <5>1. r * width + width <= top BY <4>2, <1>0, RowsApart
        <5> HIDE DEF i, top, area
        <5> QED BY <4>2, <5>1, <3>4, <1>0
      <4>3. CASE r >= y + h
        <5>1. (y + h) * width <= r * width BY <4>3, <1>0, RowsApart
        <5> HIDE DEF i, top, area
        <5> QED BY <4>3, <5>1, <3>3, <3>4, <1>0
      <4> QED BY <4>1, <4>2, <4>3, <1>0
    <3>6. W[i] = IF i \in top .. top + area - 1 THEN src[i - top] ELSE buf[i]
      <4> HIDE DEF i
      <4> QED BY <3>1
    <3>7. W[i] = IF c \in x .. x + w - 1 /\ r \in y .. y + h - 1
                   THEN src[(r - y) * w + (c - x)] ELSE buf[i]
      <4> HIDE DEF W, i, top, area
      <4> QED BY <3>2, <3>5, <3>6
    <3> QED BY <3>7
  <2>5. Writes(buf, W, x, y, w, h, src) BY <2>4 DEF Writes
  <2> QED BY <2>1, <2>3, <2>5
<1>5. CASE ~(x = 0 /\ w = width)
  <2> DEFINE R(i) == CHOOSE r \in 0 .. h - 1 : At(i, r)
             W == [i \in 0 .. n - 1 |-> IF \E r \in 0 .. h - 1 : At(i, r)
                                          THEN src[R(i) * w + (i - ((y + R(i)) * width + x))]
                                          ELSE buf[i]]
  <2>1. Written(buf, x, y, w, h, src) = W BY <1>5, <1>1 DEF Written
  <2>2. ASSUME NEW i \in 0 .. n - 1, NEW r \in 0 .. h - 1, At(i, r)
        PROVE  /\ R(i) \in 0 .. h - 1 /\ At(i, R(i))
               /\ i - ((y + R(i)) * width + x) \in 0 .. w - 1
    <3>1. R(i) \in 0 .. h - 1 /\ At(i, R(i)) BY <2>2
    <3>2. (y + R(i)) * width \in Int BY <3>1, <1>0
    <3> QED BY <3>1, <3>2, <1>0
  <2>3. W \in Block(n)
    <3> SUFFICES ASSUME NEW i \in 0 .. n - 1, NEW r \in 0 .. h - 1, At(i, r)
                 PROVE  src[R(i) * w + (i - ((y + R(i)) * width + x))] \in Colours
      BY <1>1 DEF Block
    <3>1. R(i) * w + (i - ((y + R(i)) * width + x)) \in 0 .. w * h - 1
      BY <2>2, <1>0, AddressInside
    <3> QED BY <3>1, <1>2
  <2>4. ASSUME NEW c \in 0 .. width - 1, NEW r \in 0 .. height - 1
        PROVE  W[r * width + c] = IF c \in x .. x + w - 1 /\ r \in y .. y + h - 1
                                    THEN src[(r - y) * w + (c - x)] ELSE buf[r * width + c]
    <3> DEFINE i == r * width + c
    <3>0. i \in 0 .. n - 1 BY <1>3
    <3>1. i \in 0 .. n - 1 /\ r * width \in Int BY <3>0, <1>0
    <3>2. ASSUME NEW q \in 0 .. h - 1, At(i, q)
          PROVE  r = y + q /\ c \in x .. x + w - 1
      <4> DEFINE d == i - (y + q) * width
      <4>1. (y + q) * width \in Int /\ d \in x .. x + w - 1 BY <3>2, <3>1, <1>0
      <4>2. d \in 0 .. width - 1 BY <4>1, <1>0
      <4>3. (y + q) * width + d = r * width + c BY <4>1, <3>1
      <4>4. r = y + q /\ c = d
        <5> HIDE DEF d
        <5> QED BY <4>2, <4>3, <1>0, AddressUnique
      <4> QED BY <4>1, <4>4
    <3>3. CASE c \in x .. x + w - 1 /\ r \in y .. y + h - 1
      <4>1. r - y \in 0 .. h - 1 /\ y + (r - y) = r BY <3>3, <1>0
      <4>2. At(i, r - y) BY <3>3, <4>1, <3>1, <1>0
      <4>3. R(i) \in 0 .. h - 1 /\ At(i, R(i)) BY <2>2, <4>1, <4>2, <3>1
      <4>4. R(i) = r - y
        <5> HIDE DEF At, R, i
        <5>1. r = y + R(i) BY <3>2, <4>3
        <5> QED BY <5>1, <4>3, <1>0
      <4>5. W[i] = src[R(i) * w + (i - ((y + R(i)) * width + x))] BY <3>1, <4>1, <4>2
      <4>6. i - ((y + (r - y)) * width + x) = c - x BY <3>1, <4>1, <1>0
      <4>7. W[i] = src[(r - y) * w + (c - x)]
        <5> HIDE DEF At, R, i, W
        <5> QED BY <4>4, <4>5, <4>6
      <4> QED BY <4>7, <3>3
    <3>4. CASE ~(c \in x .. x + w - 1 /\ r \in y .. y + h - 1)
      <4>1. ~ \E q \in 0 .. h - 1 : At(i, q)
        <5> HIDE DEF At, i
        <5>1. \A q \in 0 .. h - 1 : y + q \in y .. y + h - 1 BY <1>0
        <5> QED BY <3>2, <3>4, <5>1
      <4> QED BY <4>1, <3>1, <3>4
    <3> QED BY <3>3, <3>4
  <2>5. Writes(buf, W, x, y, w, h, src)
    <3> HIDE DEF W
    <3> QED BY <2>4 DEF Writes
  <2> QED BY <2>1, <2>3, <2>5
<1> QED BY <1>4, <1>5

-----------------------------------------------------------------------------
(* The invariant.                                                          *)

Inv == TypeOK /\ BackingFits

\* Sizes are natural numbers, and the rectangle fits the backing.
LEMMA Arithmetic ==
  ASSUME Inv
  PROVE  width \in Nat /\ height \in Nat /\ Nbytes \in Nat /\ capacity \in Nat /\ Nbytes <= capacity
<1>1. width \in Nat /\ height \in Nat BY BufferAssumption DEF Inv, TypeOK
<1>2. width * height \in Nat BY <1>1, Z3
<1> QED BY <1>1, <1>2 DEF Inv, TypeOK, BackingFits, Nbytes

\* What tobytes returns: the held blit, or the backing up to the rectangle's end.
LEMMA ToBytesBlock ==
  ASSUME Inv
  PROVE  ToBytes \in Block(Nbytes) /\ \A i \in 0 .. Nbytes - 1 : ToBytes[i] = IF held THEN whole[i] ELSE backing[i]
<1> HIDE DEF Nbytes
<1> QED BY Arithmetic DEF ToBytes, Block, Inv, TypeOK

\* The backing before a narrow write shows black or what was drawn.
LEMMA ClearedBlock ==
  ASSUME Inv
  PROVE  /\ Materialized \in Block(capacity) /\ Cleared \in Block(capacity)
         /\ \A i \in 0 .. Nbytes - 1 : Cleared[i] = IF covered THEN ToBytes[i] ELSE Black
<1> HIDE DEF Nbytes
<1>1. backing \in Block(capacity) /\ (held => whole \in Block(Nbytes) /\ covered)
  BY DEF Inv, TypeOK, BackingFits
<1>2. Materialized \in Block(capacity) BY <1>1, Arithmetic DEF Materialized, Block
<1>3. \A i \in 0 .. Nbytes - 1 : Materialized[i] = ToBytes[i]
  BY <1>1, Arithmetic, ToBytesBlock DEF Materialized, Block
<1>4. Cleared \in Block(capacity) BY <1>1, <1>2, BufferAssumption DEF Cleared, Block
<1>5. \A i \in 0 .. Nbytes - 1 : Cleared[i] = IF covered THEN ToBytes[i] ELSE Black
  BY <1>1, <1>3, Arithmetic DEF Cleared, Block
<1> QED BY <1>2, <1>4, <1>5

\* A row or a rectangle of one colour.
LEMMA FillBlock ==
  ASSUME NEW colour \in Colours, NEW n \in Int
  PROVE  [i \in 0 .. n - 1 |-> colour] \in Block(n)
BY DEF Block

\* Before the first rectangle there is no backing.
LEMMA InitInv == Init => Inv
<1> SUFFICES ASSUME Init PROVE Inv
  OBVIOUS
<1>1. Zeros(0) \in Block(0) BY DEF Zeros, Block
<1>2. Nbytes = 0 BY DEF Init, Nbytes
<1>3. width \in 0..LimitW /\ height \in 0..LimitH BY BufferAssumption DEF Init
<1>4. backing \in Block(capacity) /\ whole \in Block(IF held THEN Nbytes ELSE 0) BY <1>1 DEF Init
<1>5. mode \in {"idle", "drawing", "shown", "failed"} /\ capacity \in Nat
      /\ covered \in BOOLEAN /\ held \in BOOLEAN
  BY DEF Init
<1>6. TypeOK BY <1>3, <1>4, <1>5 DEF TypeOK
<1>7. BackingFits BY <1>2 DEF Init, BackingFits
<1> QED BY <1>6, <1>7 DEF Inv

\* Every call of a decoder, and every new rectangle, keeps the backing fit.
LEMMA NextInv == Inv /\ [Next]_vars => Inv'
<1> SUFFICES ASSUME Inv, [Next]_vars PROVE Inv'
  OBVIOUS
<1>0. Zeros(0) \in Block(0) BY DEF Zeros, Block
<1>1. ASSUME NEW w \in 0 .. LimitW + 1, NEW h \in 0 .. LimitH + 1, NewBuffer(w, h)
      PROVE  Inv'
  <2>1. w * h \in Nat BY BufferAssumption, Z3
  <2>2. Zeros(w * h) \in Block(w * h) BY <2>1, BufferAssumption DEF Zeros, Block
  <2>3. w \in 0..LimitW /\ h \in 0..LimitH BY <1>1, BufferAssumption DEF NewBuffer
  <2>4. Nbytes' = w * h BY <1>1 DEF NewBuffer, NewRect, Nbytes
  <2>5. Nbytes' <= capacity' /\ capacity' \in Nat /\ backing' \in Block(capacity')
    BY <1>1, <2>1, <2>2, <2>4, Arithmetic DEF NewBuffer, NewRect, Inv, TypeOK
  <2> QED BY <1>0, <1>1, <2>3, <2>5 DEF NewBuffer, NewRect, Inv, TypeOK, BackingFits
<1>2. ASSUME NEW w, NEW h, NoBuffer(w, h) PROVE Inv'
  BY <1>2 DEF NoBuffer, buffer, Inv, TypeOK, BackingFits, Nbytes
<1>3. ASSUME NEW x \in 0..LimitW, NEW w \in 0..LimitW, NEW y \in 0..LimitH, NEW h \in 0..LimitH,
             NEW pixels \in Block(w * h), Blit(x, y, w, h, pixels)
      PROVE  Inv'
  <2>1. x \in Int /\ y \in Int /\ w \in Int /\ h \in Int BY BufferAssumption
  <2>2. CheckRect(x, y, w, h) BY <1>3 DEF Blit
  <2>3. Nbytes' = Nbytes /\ (IsWhole(x, y, w, h) => w * h = Nbytes)
    BY <1>3 DEF Blit, Nbytes, IsWhole
  <2>4. Written(Cleared, x, y, w, h, pixels) \in Block(capacity)
    BY <2>1, <2>2, Arithmetic, ClearedBlock, WrittenPixel
  <2> HIDE DEF Nbytes
  <2>5. CASE IsWhole(x, y, w, h)
    BY <2>3, <2>5, <1>3 DEF Blit, Inv, TypeOK, BackingFits
  <2>6. CASE ~IsWhole(x, y, w, h)
    BY <1>0, <2>3, <2>4, <2>6, <1>3 DEF Blit, Inv, TypeOK, BackingFits
  <2> QED BY <2>5, <2>6
<1>4. ASSUME NEW x \in 0..LimitW, NEW w \in 0..LimitW, NEW y \in 0..LimitH, NEW h \in 0..LimitH,
             NEW colour \in Colours, Fill(x, y, w, h, colour)
      PROVE  Inv'
  <2> DEFINE src == [i \in 0 .. w * h - 1 |-> colour]
             buf == IF IsWhole(x, y, w, h) THEN Materialized ELSE Cleared
  <2>1. x \in Int /\ y \in Int /\ w \in Int /\ h \in Int BY BufferAssumption
  <2>2. CheckRect(x, y, w, h) BY <1>4 DEF Fill
  <2>3. w * h \in Int BY <2>1
  <2>4. src \in Block(w * h) BY <2>3, FillBlock
  <2>5. buf \in Block(capacity) BY ClearedBlock
  <2>6. backing' = Written(buf, x, y, w, h, src) BY <1>4 DEF Fill
  <2> HIDE DEF src, buf
  <2>7. backing' \in Block(capacity) BY <2>1, <2>2, <2>4, <2>5, <2>6, Arithmetic, WrittenPixel
  <2>8. Nbytes' = Nbytes BY <1>4 DEF Fill, Nbytes
  <2> HIDE DEF Nbytes
  <2> QED BY <1>0, <1>4, <2>7, <2>8 DEF Fill, Inv, TypeOK, BackingFits
<1>5. ASSUME NEW x, NEW y, NEW w, NEW h, NEW n, DecodeError(x, y, w, h, n) PROVE Inv'
  BY <1>5 DEF DecodeError, buffer, Inv, TypeOK, BackingFits, Nbytes
<1>6. CASE FinishRectangle
  BY <1>6 DEF FinishRectangle, buffer, Inv, TypeOK, BackingFits, Nbytes
<1>7. CASE UNCHANGED vars
  BY <1>7 DEF vars, buffer, Inv, TypeOK, BackingFits, Nbytes
<1> QED BY <1>1, <1>2, <1>3, <1>4, <1>5, <1>6, <1>7 DEF Next

\* The types hold, the backing always has room for the rectangle, and only a
\* covered buffer holds a blit.
THEOREM BufferSafe == Spec => [](TypeOK /\ BackingFits)
<1>1. Inv => TypeOK /\ BackingFits BY DEF Inv
<1> QED BY InitInv, NextInv, <1>1, PTL DEF Spec

-----------------------------------------------------------------------------
(* The refinement.                                                         *)

\* What the code calls a rectangle is what the canvas calls one.
LEMMA PictureOf ==
  ASSUME Inv, NEW block
  PROVE  /\ DOMAIN Picture(block) = C!Surface
         /\ \A p \in C!Surface : /\ p[1] \in 0 .. width - 1 /\ p[2] \in 0 .. height - 1
                                 /\ Picture(block)[p] = block[p[2] * width + p[1]]
BY DEF Picture, C!Surface

\* Nothing is drawn at first, on either side.
LEMMA InitRefines == Init => C!Init
<1> SUFFICES ASSUME Init PROVE C!Init
  OBVIOUS
<1>1. C!Surface = {} BY DEF Init, C!Surface
<1>2. Drawing = [p \in C!Surface |-> Black] BY <1>1 DEF Init, Drawing, Picture, C!Surface
<1> QED BY <1>2 DEF Init, C!Init, NoCall, C!NoCall

\* A new buffer is a new black canvas, whatever its backing holds.
LEMMA StartRefines ==
  ASSUME Inv, NEW w \in 0 .. LimitW + 1, NEW h \in 0 .. LimitH + 1, NewBuffer(w, h)
  PROVE  C!Start
<1>1. w \in 0..LimitW /\ h \in 0..LimitH BY BufferAssumption DEF NewBuffer
<1>2. <<width', height'>> \in Sizes BY <1>1 DEF NewBuffer, NewRect, Sizes
<1>3. Nbytes' = w * h /\ width' = w /\ height' = h BY DEF NewBuffer, NewRect, Nbytes
<1>4. ASSUME NEW p \in (0 .. w - 1) \X (0 .. h - 1)
      PROVE  Zeros(w * h)[p[2] * w + p[1]] = Black
  <2>1. p[2] * w + p[1] \in 0 .. w * h - 1 BY <1>1, BufferAssumption, AddressInside
  <2> QED BY <2>1 DEF Zeros
<1>5. Drawing' = [p \in C!Surface' |-> Zeros(w * h)[p[2] * w + p[1]]]
  BY <1>3 DEF NewBuffer, NewRect, Drawing, Picture, C!Surface, Zeros
<1>6. Drawing' = [p \in C!Surface' |-> Black] BY <1>3, <1>4, <1>5 DEF C!Surface
<1> QED BY <1>2, <1>6 DEF NewBuffer, NewRect, C!Start, NoCall, C!NoCall

\* The cleared backing shows the picture drawn so far.
LEMMA ClearedShows ==
  ASSUME Inv, NEW p \in C!Surface
  PROVE  /\ p[1] \in 0 .. width - 1 /\ p[2] \in 0 .. height - 1
         /\ p[2] * width + p[1] \in 0 .. Nbytes - 1
         /\ Cleared[p[2] * width + p[1]] = Drawing[p]
<1> DEFINE i == p[2] * width + p[1]
<1>1. p[1] \in 0 .. width - 1 /\ p[2] \in 0 .. height - 1 BY DEF C!Surface
<1>2. i \in 0 .. Nbytes - 1 BY <1>1, Arithmetic, AddressInside DEF Nbytes
<1>3. Cleared[i] = (IF covered THEN ToBytes[i] ELSE Black) /\ Zeros(Nbytes)[i] = Black
  <2> HIDE DEF i, Nbytes
  <2> QED BY <1>2, ClearedBlock DEF Zeros
<1>4. Drawing[p] = IF covered THEN ToBytes[i] ELSE Zeros(Nbytes)[i] BY PictureOf DEF Drawing
<1>5. Cleared[i] = Drawing[p]
  <2> HIDE DEF i
  <2> QED BY <1>3, <1>4
<1> QED BY <1>1, <1>2, <1>5

\* The pixel at p once src was written.
Pixel(p, x, y, w, h, src) ==
  IF p[1] \in x .. x + w - 1 /\ p[2] \in y .. y + h - 1
    THEN src[(p[2] - y) * w + (p[1] - x)] ELSE Drawing[p]

\* A write into a buffer that shows the picture outside the area written.
LEMMA WriteRefines ==
  ASSUME Inv, NEW x \in Int, NEW y \in Int, NEW w \in Int, NEW h \in Int, CheckRect(x, y, w, h),
         NEW src \in Block(w * h), NEW buf \in Block(capacity), buf = Cleared \/ IsWhole(x, y, w, h),
         NEW p \in C!Surface
  PROVE  Written(buf, x, y, w, h, src)[p[2] * width + p[1]] = Pixel(p, x, y, w, h, src)
<1> DEFINE i == p[2] * width + p[1]
           In == p[1] \in x .. x + w - 1 /\ p[2] \in y .. y + h - 1
<1>1. p[1] \in 0 .. width - 1 /\ p[2] \in 0 .. height - 1 /\ Cleared[i] = Drawing[p]
  BY ClearedShows
<1>2. width \in Nat /\ height \in Nat /\ Nbytes <= capacity /\ capacity \in Nat BY Arithmetic
<1>3. Writes(buf, Written(buf, x, y, w, h, src), x, y, w, h, src) BY <1>2, WrittenPixel
<1>4. Written(buf, x, y, w, h, src)[i] = IF In THEN src[(p[2] - y) * w + (p[1] - x)] ELSE buf[i]
  BY <1>1, <1>3 DEF Writes
<1>5. In \/ buf[i] = Drawing[p]
  <2>1. IsWhole(x, y, w, h) => In BY <1>1, <1>2 DEF IsWhole
  <2> QED BY <1>1, <2>1
<1>6. Written(buf, x, y, w, h, src)[i] = IF In THEN src[(p[2] - y) * w + (p[1] - x)] ELSE Drawing[p]
  <2> HIDE DEF i, In
  <2> QED BY <1>4, <1>5
<1> QED BY <1>6 DEF Pixel

\* A whole blit is only held, a narrow one goes into the cleared backing: either
\* way the picture changes in the area of the call and nowhere else.
LEMMA BlitRefines ==
  ASSUME Inv, NEW x \in 0..LimitW, NEW w \in 0..LimitW, NEW y \in 0..LimitH, NEW h \in 0..LimitH,
         NEW pixels \in Block(w * h), Blit(x, y, w, h, pixels)
  PROVE  C!Blit
<1> DEFINE New(p) == IF C!Within(p, call') THEN pixels[(p[2] - y) * w + (p[1] - x)] ELSE Drawing[p]
<1>1. x \in Int /\ y \in Int /\ w \in Int /\ h \in Int BY BufferAssumption
<1>2. CheckRect(x, y, w, h) BY DEF Blit
<1>3. width' = width /\ height' = height /\ covered' = TRUE /\ Nbytes' = Nbytes
  BY DEF Blit, Nbytes
<1>4. call'.op = "blit" /\ call'.x = x /\ call'.y = y /\ call'.w = w /\ call'.h = h
      /\ call'.pixels = pixels
  BY DEF Blit
<1>5. Drawing' = [p \in C!Surface |-> ToBytes'[p[2] * width + p[1]]]
  BY <1>3 DEF Drawing, Picture, C!Surface
<1>6. ASSUME NEW p \in C!Surface PROVE ToBytes'[p[2] * width + p[1]] = New(p)
  <2> DEFINE i == p[2] * width + p[1]
  <2>1. p[1] \in 0 .. width - 1 /\ p[2] \in 0 .. height - 1 /\ i \in 0 .. Nbytes - 1
    BY <1>6, ClearedShows
  <2>2. CASE IsWhole(x, y, w, h)
    <3>1. C!Within(p, call') BY <1>4, <2>1, <2>2, Arithmetic DEF C!Within, IsWhole
    <3>2. ToBytes' = pixels BY <2>2 DEF Blit, ToBytes
    <3>3. p[2] - y = p[2] /\ p[1] - x = p[1] /\ w = width BY <2>1, <2>2 DEF IsWhole
    <3> QED BY <3>1, <3>2, <3>3
  <2>3. CASE ~IsWhole(x, y, w, h)
    <3>1. backing' = Written(Cleared, x, y, w, h, pixels) /\ ~held' BY <2>3 DEF Blit
    <3>2. ToBytes'[i] = backing'[i]
      <4> HIDE DEF i, Nbytes
      <4> QED BY <1>3, <2>1, <3>1 DEF ToBytes
    <3>3. Written(Cleared, x, y, w, h, pixels)[i] = Pixel(p, x, y, w, h, pixels)
      <4>1. Cleared \in Block(capacity) BY ClearedBlock
      <4> QED BY <1>1, <1>2, <1>6, <4>1, WriteRefines
    <3> HIDE DEF i, New
    <3>4. ToBytes'[i] = New(p) BY <1>4, <3>1, <3>2, <3>3 DEF New, C!Within, Pixel
    <3> QED BY <3>4 DEF i
  <2> QED BY <2>2, <2>3
<1>7. Drawing' = [p \in C!Surface |-> New(p)]
  <2> HIDE DEF New
  <2> QED BY <1>5, <1>6
<1>8. mode # "shown" /\ mode' = mode BY DEF Blit
<1> QED BY <1>3, <1>4, <1>7, <1>8 DEF Blit, C!Blit

\* A fill of the whole rectangle need not clear, for it overwrites all of it.
LEMMA FillRefines ==
  ASSUME Inv, NEW x \in 0..LimitW, NEW w \in 0..LimitW, NEW y \in 0..LimitH, NEW h \in 0..LimitH,
         NEW colour \in Colours, Fill(x, y, w, h, colour)
  PROVE  C!Fill
<1> DEFINE New(p) == IF C!Within(p, call') THEN colour ELSE Drawing[p]
           src == [i \in 0 .. w * h - 1 |-> colour]
           buf == IF IsWhole(x, y, w, h) THEN Materialized ELSE Cleared
<1>1. x \in Int /\ y \in Int /\ w \in Int /\ h \in Int /\ w \in Nat /\ h \in Nat
  BY BufferAssumption
<1>2. CheckRect(x, y, w, h) BY DEF Fill
<1>3. width' = width /\ height' = height /\ covered' = TRUE /\ Nbytes' = Nbytes /\ ~held'
  BY DEF Fill, Nbytes
<1>4. call'.op = "fill" /\ call'.x = x /\ call'.y = y /\ call'.w = w /\ call'.h = h
      /\ call'.colour = colour
  BY DEF Fill
<1>5. Drawing' = [p \in C!Surface |-> ToBytes'[p[2] * width + p[1]]]
  BY <1>3 DEF Drawing, Picture, C!Surface
<1>6. backing' = Written(buf, x, y, w, h, src) BY DEF Fill
<1>7. buf \in Block(capacity) /\ (buf = Cleared \/ IsWhole(x, y, w, h)) BY ClearedBlock
<1>8. src \in Block(w * h)
  <2>1. w * h \in Int BY <1>1
  <2> QED BY <2>1, FillBlock
<1>9. ASSUME NEW p \in C!Surface PROVE ToBytes'[p[2] * width + p[1]] = New(p)
  <2> DEFINE i == p[2] * width + p[1]
             j == (p[2] - y) * w + (p[1] - x)
  <2>1. p[1] \in 0 .. width - 1 /\ p[2] \in 0 .. height - 1 /\ i \in 0 .. Nbytes - 1
    BY <1>9, ClearedShows
  <2>2. ToBytes'[i] = backing'[i]
    <3> HIDE DEF i, Nbytes
    <3> QED BY <1>3, <2>1 DEF ToBytes
  <2>3. Written(buf, x, y, w, h, src)[i] = Pixel(p, x, y, w, h, src)
    <3> HIDE DEF buf, src
    <3> QED BY <1>1, <1>2, <1>7, <1>8, <1>9, WriteRefines
  <2>4. C!Within(p, call') => src[j] = colour
    <3> SUFFICES ASSUME C!Within(p, call') PROVE j \in 0 .. w * h - 1
      <4> HIDE DEF j
      <4> QED OBVIOUS
    <3>1. p[2] - y \in 0 .. h - 1 /\ p[1] - x \in 0 .. w - 1
      BY <1>1, <1>4, <2>1, Arithmetic DEF C!Within
    <3> QED BY <3>1, <1>1, AddressInside
  <2> HIDE DEF i, j, src, buf
  <2>5. ToBytes'[i] = New(p) BY <1>4, <1>6, <2>2, <2>3, <2>4 DEF C!Within, Pixel, j
  <2> QED BY <2>5 DEF i
<1>10. Drawing' = [p \in C!Surface |-> New(p)]
  <2> HIDE DEF New
  <2> QED BY <1>5, <1>9
<1>11. mode # "shown" /\ mode' = mode BY DEF Fill
<1> QED BY <1>3, <1>4, <1>10, <1>11 DEF Fill, C!Fill

\* The pixels handed to the client are the picture drawn.
LEMMA ShowRefines ==
  ASSUME Inv, FinishRectangle
  PROVE  C!Show
<1>1. /\ width' = width /\ height' = height /\ covered' = covered /\ call' = call
      /\ Nbytes' = Nbytes /\ ToBytes' = ToBytes /\ mode' = "shown" /\ mode = "drawing"
  BY DEF FinishRectangle, buffer, Nbytes, ToBytes
<1>2. Drawing' = Drawing BY <1>1 DEF Drawing, Picture
<1>3. Picture(shown)' = Picture(ToBytes) BY <1>1 DEF FinishRectangle, Picture
<1>4. Picture(ToBytes) \in [C!Surface -> Colours]
  <2> SUFFICES ASSUME NEW p \in C!Surface PROVE ToBytes[p[2] * width + p[1]] \in Colours
    BY DEF Picture, C!Surface
  <2> DEFINE i == p[2] * width + p[1]
  <2>1. i \in 0 .. Nbytes - 1 BY ClearedShows
  <2> HIDE DEF i, Nbytes
  <2>2. ToBytes[i] \in Colours BY <2>1, ToBytesBlock DEF Block
  <2> QED BY <2>2 DEF i
<1>5. covered => Drawing = Picture(ToBytes) BY DEF Drawing
<1> QED BY <1>1, <1>2, <1>3, <1>4, <1>5 DEF C!Show

\* A rectangle that cannot be held fails for the canvas too.
LEMMA FailRefines ==
  ASSUME mode # "failed", mode' = "failed", UNCHANGED <<width, height, call, buffer>>
  PROVE  C!Fail
<1>1. Drawing' = Drawing BY DEF Drawing, Picture, ToBytes, Nbytes, buffer
<1> QED BY <1>1 DEF C!Fail, buffer

\* Whatever the framebuffer and the colours, and whatever a decoder draws in
\* whatever order, RectBuffer over its reused backing shows what Canvas shows.
THEOREM BufferImplementsCanvas == Spec => ImplementsCanvas
<1>1. Inv /\ [Next]_vars => [C!Next]_C!canvasVars
  <2> SUFFICES ASSUME Inv, [Next]_vars PROVE [C!Next]_C!canvasVars
    OBVIOUS
  <2>1. ASSUME NEW w \in 0 .. LimitW + 1, NEW h \in 0 .. LimitH + 1,
               NewBuffer(w, h) \/ NoBuffer(w, h)
        PROVE  C!Start \/ C!Fail
    <3>1. NoBuffer(w, h) => C!Fail BY FailRefines DEF NoBuffer
    <3> QED BY <2>1, <3>1, StartRefines
  <2>2. ASSUME NEW x \in 0..LimitW, NEW w \in 0..LimitW, NEW y \in 0..LimitH, NEW h \in 0..LimitH,
               NEW pixels \in Block(w * h), Blit(x, y, w, h, pixels)
        PROVE  C!Blit
    BY <2>2, BlitRefines
  <2>3. ASSUME NEW x \in 0..LimitW, NEW w \in 0..LimitW, NEW y \in 0..LimitH, NEW h \in 0..LimitH,
               NEW colour \in Colours, Fill(x, y, w, h, colour)
        PROVE  C!Fill
    BY <2>3, FillRefines
  <2>4. ASSUME NEW x, NEW y, NEW w, NEW h, NEW n, DecodeError(x, y, w, h, n) PROVE C!Fail
    BY <2>4, FailRefines DEF DecodeError
  <2>5. FinishRectangle => C!Show BY ShowRefines
  <2>6. CASE UNCHANGED vars
    <3>1. Drawing' = Drawing BY <2>6 DEF vars, Drawing, Picture, ToBytes, Nbytes, buffer
    <3>2. (IF mode = "shown" THEN Picture(shown) ELSE <<>>)' = IF mode = "shown" THEN Picture(shown) ELSE <<>>
      BY <2>6 DEF vars, Picture
    <3> QED BY <2>6, <3>1, <3>2 DEF vars, buffer, C!canvasVars
  <2> QED BY <2>1, <2>2, <2>3, <2>4, <2>5, <2>6 DEF Next, C!Next
<1> QED BY InitInv, NextInv, InitRefines, <1>1, PTL DEF Spec, ImplementsCanvas, C!Spec
=============================================================================
