---------------------------- MODULE MCRectBuffer -----------------------------
(* Rectangles of up to two by two pixels, of two colours, for TLC. *)
EXTENDS RectBuffer

MCColours == {0, 1}
=============================================================================
