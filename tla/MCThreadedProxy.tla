--------------------------- MODULE MCThreadedProxy ---------------------------
(* RFB sessions driven through api.py, for TLC. *)
EXTENDS ThreadedProxy

\* Methods that hand the client on.
ClientKinds == {"self", "async"}
=============================================================================
