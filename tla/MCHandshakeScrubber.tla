------------------------- MODULE MCHandshakeScrubber -------------------------
(* Captured sessions of every version and kind of authentication, for TLC. *)
EXTENDS HandshakeScrubber

Tight == 16     \* a security type whose exchange the scrubber cannot follow

AllOffers == {<<>>, <<NONE>>, <<VNC_AUTHENTICATION, NONE>>, <<DIFFIE_HELLMAN>>, <<Tight>>}
AllDecisions == {0, NONE, VNC_AUTHENTICATION, DIFFIE_HELLMAN, Tight}
=============================================================================
