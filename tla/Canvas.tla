------------------------------- MODULE Canvas --------------------------------
(***************************************************************************)
(* What a decoder of vncdotool/decoders may rely on, whatever the buffer   *)
(* it draws into does: every rectangle has a picture of its own, black     *)
(* where nothing was drawn and showing the last call drawn elsewhere.  The *)
(* client is shown that picture, or nothing if the rectangle fails.  Of a  *)
(* rectangle into which nothing at all was drawn no picture is promised.   *)
(***************************************************************************)
EXTENDS Integers

CONSTANTS Colours, Black, Sizes

VARIABLES
  mode,            \* "idle", "drawing", "shown" or "failed"
  width, height,   \* of the rectangle
  call,            \* the decoder's last call: the interface
  picture, drawn,  \* the picture; whether anything was drawn into it
  shown            \* what updateRectangle was given

canvasVars == <<mode, width, height, call, picture, drawn, shown>>

NoCall == [op |-> "none"]
Surface == (0 .. width - 1) \X (0 .. height - 1)
Within(p, c) == p[1] \in c.x .. c.x + c.w - 1 /\ p[2] \in c.y .. c.y + c.h - 1

Init ==
  /\ mode = "idle" /\ width = 0 /\ height = 0 /\ call = NoCall
  /\ picture = [p \in Surface |-> Black] /\ drawn = FALSE /\ shown = <<>>

\* The header of a rectangle arrived.
Start ==
  /\ mode \in {"idle", "shown"} /\ mode' = "drawing" /\ <<width', height'>> \in Sizes
  /\ call' = NoCall /\ picture' = [p \in Surface' |-> Black] /\ drawn' = FALSE /\ shown' = <<>>

\* The pixels of a blit come row by row.
Blit ==
  /\ mode = "drawing" /\ call'.op = "blit" /\ drawn' = TRUE
  /\ picture' = [p \in Surface |->
                   IF Within(p, call')
                     THEN call'.pixels[(p[2] - call'.y) * call'.w + (p[1] - call'.x)]
                     ELSE picture[p]]
  /\ UNCHANGED <<mode, width, height, shown>>

Fill ==
  /\ mode = "drawing" /\ call'.op = "fill" /\ drawn' = TRUE
  /\ picture' = [p \in Surface |-> IF Within(p, call') THEN call'.colour ELSE picture[p]]
  /\ UNCHANGED <<mode, width, height, shown>>

Show ==
  /\ mode = "drawing" /\ mode' = "shown"
  /\ shown' \in [Surface -> Colours] /\ (drawn => shown' = picture)
  /\ UNCHANGED <<width, height, call, picture, drawn>>

Fail ==
  /\ mode # "failed" /\ mode' = "failed" /\ shown' = <<>>
  /\ UNCHANGED <<width, height, call, picture, drawn>>

Next == Start \/ Blit \/ Fill \/ Show \/ Fail
Spec == Init /\ [][Next]_canvasVars
=============================================================================
