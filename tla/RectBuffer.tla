----------------------------- MODULE RectBuffer ------------------------------
(***************************************************************************)
(* vncdotool/decoders/buffer.py and its use in rfb.py: the buffer a        *)
(* PixelDecoder draws a rectangle into.                                    *)
(*                                                                         *)
(* All rectangles of a connection share one backing, which is neither      *)
(* cleared nor shrunk between them.  A blit of the whole rectangle is only *)
(* held; the first narrower write clears the backing, or copies the held   *)
(* blit into it.  Pixels are kept row by row; one of them stands for its   *)
(* bypp bytes.  The decoder is any sequence of calls.                      *)
(***************************************************************************)
EXTENDS Integers

CONSTANTS
  Colours,           \* values of a pixel
  Black,             \* the one whose bytes are 0
  LimitW, LimitH     \* the framebuffer, or MAX_DESKTOP_SIZE

ASSUME BufferAssumption == Black \in Colours /\ LimitW \in Nat /\ LimitH \in Nat

VARIABLES
  mode, width, height, call, shown,   \* as in Canvas; shown is a row-major block
  backing,    \* RFBClient._rect_backing
  capacity,   \* its length
  held,       \* RectBuffer._whole is not None
  whole,      \* the block it holds; empty if it is None
  covered     \* RectBuffer._covered

buffer == <<backing, held, whole, covered>>
vars == <<mode, width, height, call, shown, buffer, capacity>>

Block(n) == [0 .. n - 1 -> Colours]
Zeros(n) == [i \in 0 .. n - 1 |-> Black]
NoCall == [op |-> "none"]
Nbytes == width * height
Sizes == (0..LimitW) \X (0..LimitH)

Init ==
  /\ mode = "idle" /\ width = 0 /\ height = 0 /\ call = NoCall /\ shown = <<>>
  /\ capacity = 0 /\ backing = Zeros(0) /\ held = FALSE /\ whole = Zeros(0)
  /\ covered = FALSE

-----------------------------------------------------------------------------
(* RFBClient._rectBuffer and RectBuffer.__init__                           *)

\* Nothing is held, and of the backing nothing is covered by a write.
NewRect(w, h) ==
  /\ width' = w /\ height' = h
  /\ held' = FALSE /\ whole' = Zeros(0) /\ covered' = FALSE

\* Mutant of NewBuffer: the capacity is compared with the width alone.
NewBufferTooSmall(w, h) ==
  /\ mode \in {"idle", "shown"} /\ w <= LimitW /\ h <= LimitH
  /\ IF capacity < w
       THEN capacity' = w * h /\ backing' = Zeros(w * h)
       ELSE UNCHANGED <<backing, capacity>>
  /\ mode' = "drawing" /\ NewRect(w, h) /\ call' = NoCall /\ shown' = <<>>

NewBuffer(w, h) ==
  /\ mode \in {"idle", "shown"} /\ w <= LimitW /\ h <= LimitH
  /\ IF capacity < w * h
       THEN capacity' = w * h /\ backing' = Zeros(w * h)
       ELSE UNCHANGED <<backing, capacity>>
  /\ mode' = "drawing" /\ NewRect(w, h) /\ call' = NoCall /\ shown' = <<>>

\* A rectangle that does not fit the framebuffer, or the memory.
NoBuffer(w, h) ==
  /\ mode \in {"idle", "shown"}
  /\ w > LimitW \/ h > LimitH \/ capacity < w * h
  /\ mode' = "failed" /\ shown' = <<>>
  /\ UNCHANGED <<width, height, call, buffer, capacity>>

-----------------------------------------------------------------------------
(* The calls of a decoder.                                                 *)

CheckRect(x, y, w, h) ==
  x >= 0 /\ y >= 0 /\ w >= 0 /\ h >= 0 /\ x + w <= width /\ y + h <= height

IsWhole(x, y, w, h) == x = 0 /\ y = 0 /\ w = width /\ h = height

\* _materialize: the backing once a held blit is copied into it.
Materialized ==
  [i \in DOMAIN backing |-> IF held /\ i < Nbytes THEN whole[i] ELSE backing[i]]

\* Mutant of Cleared: the backing is cleared under a held blit only.
ClearedIfHeld == [i \in DOMAIN backing |->
                    IF held /\ ~covered /\ i < Nbytes THEN Black ELSE Materialized[i]]

\* _materialize, then _clear.
Cleared == [i \in DOMAIN backing |-> IF ~covered /\ i < Nbytes THEN Black ELSE Materialized[i]]

\* The slice assignments of a write of w by h pixels at x, y: contiguous rows in
\* one go, others row by row.
Written(buf, x, y, w, h, src) ==
  IF x = 0 /\ w = width
    THEN [i \in DOMAIN buf |-> IF i \in y * width .. y * width + w * h - 1
                                 THEN src[i - y * width] ELSE buf[i]]
    ELSE [i \in DOMAIN buf |->
            LET In(r) == i \in (y + r) * width + x .. (y + r) * width + x + w - 1
            IN  IF \E r \in 0 .. h - 1 : In(r)
                  THEN LET r == CHOOSE r \in 0 .. h - 1 : In(r)
                       IN  src[r * w + (i - ((y + r) * width + x))]
                  ELSE buf[i]]

Blit(x, y, w, h, pixels) ==
  /\ mode = "drawing" /\ CheckRect(x, y, w, h) /\ pixels \in Block(w * h)
  /\ covered' = TRUE
  /\ IF IsWhole(x, y, w, h)
       THEN held' = TRUE /\ whole' = pixels /\ UNCHANGED backing
       ELSE /\ held' = FALSE /\ whole' = Zeros(0)
            /\ backing' = Written(Cleared, x, y, w, h, pixels)
  /\ call' = [op |-> "blit", x |-> x, y |-> y, w |-> w, h |-> h, pixels |-> pixels]
  /\ UNCHANGED <<mode, width, height, shown, capacity>>

Fill(x, y, w, h, colour) ==
  /\ mode = "drawing" /\ CheckRect(x, y, w, h)
  /\ covered' = TRUE /\ held' = FALSE /\ whole' = Zeros(0)
  /\ backing' = Written(IF IsWhole(x, y, w, h) THEN Materialized ELSE Cleared,
                        x, y, w, h, [i \in 0 .. w * h - 1 |-> colour])
  /\ call' = [op |-> "fill", x |-> x, y |-> y, w |-> w, h |-> h, colour |-> colour]
  /\ UNCHANGED <<mode, width, height, shown, capacity>>

\* A call outside the rectangle, or with the wrong number of pixels: DecodeError,
\* which _pumpBlock turns into the end of the connection.
DecodeError(x, y, w, h, n) ==
  /\ mode = "drawing" /\ (CheckRect(x, y, w, h) => n # w * h)
  /\ mode' = "failed" /\ shown' = <<>>
  /\ UNCHANGED <<width, height, call, buffer, capacity>>

-----------------------------------------------------------------------------
\* tobytes
ToBytes == IF held THEN whole ELSE [i \in 0 .. Nbytes - 1 |-> backing[i]]

\* The generator ended: _finishRectangle hands the pixels to the client.
FinishRectangle ==
  /\ mode = "drawing" /\ mode' = "shown" /\ shown' = ToBytes
  /\ UNCHANGED <<width, height, call, buffer, capacity>>

-----------------------------------------------------------------------------
Next ==
  \/ \E w \in 0 .. LimitW + 1, h \in 0 .. LimitH + 1 : NewBuffer(w, h) \/ NoBuffer(w, h)
  \/ \E x, w \in 0..LimitW, y, h \in 0..LimitH :
       \/ \E pixels \in Block(w * h) : Blit(x, y, w, h, pixels)
       \/ \E colour \in Colours : Fill(x, y, w, h, colour)
  \/ \E x, w \in -1..LimitW, y, h \in -1..LimitH, n \in 0..1 : DecodeError(x, y, w, h, n)
  \/ FinishRectangle

Spec == Init /\ [][Next]_vars

-----------------------------------------------------------------------------
TypeOK ==
  /\ mode \in {"idle", "drawing", "shown", "failed"}
  /\ width \in 0..LimitW /\ height \in 0..LimitH /\ capacity \in Nat
  /\ backing \in Block(capacity)
  /\ covered \in BOOLEAN /\ held \in BOOLEAN
  /\ whole \in Block(IF held THEN Nbytes ELSE 0)

\* The ValueError of RectBuffer.__init__ cannot be raised, and a held blit is what
\* the rectangle shows: nothing else reaches the client through a later write.
BackingFits == Nbytes <= capacity /\ (held => covered)

\* Row-major pixels as a picture.
Picture(block) == [p \in (0 .. width - 1) \X (0 .. height - 1) |-> block[p[2] * width + p[1]]]

Drawing == IF covered THEN Picture(ToBytes) ELSE Picture(Zeros(Nbytes))

C == INSTANCE Canvas WITH picture <- Drawing, drawn <- covered,
                          shown <- IF mode = "shown" THEN Picture(shown) ELSE <<>>

\* Whatever the previous rectangles left in the shared backing, and in whatever
\* order a decoder blits and fills, the client is shown the picture that the
\* calls for this rectangle draw on black.
ImplementsCanvas == C!Spec
=============================================================================
