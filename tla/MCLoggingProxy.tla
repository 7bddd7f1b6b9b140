--------------------------- MODULE MCLoggingProxy ---------------------------
(* Three connections to vnclog, for TLC: a session, a probe and a latecomer. *)
EXTENDS LoggingProxy
=============================================================================
