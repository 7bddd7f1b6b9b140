------------------------------ MODULE MCReplay ------------------------------
(* Captures of every version and kind of authentication, replayed, for TLC. *)
EXTENDS Replay

Tight == 16     \* a security type whose exchange the grammar cannot follow

AllTypes == {0, NONE, VNC_AUTHENTICATION, DIFFIE_HELLMAN, Tight}
AnyFlag == BOOLEAN
=============================================================================
