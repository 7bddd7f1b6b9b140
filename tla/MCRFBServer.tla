----------------------------- MODULE MCRFBServer -----------------------------
(* Clients of vnclog for TLC. *)
EXTENDS RFBServer

AnyFlag == BOOLEAN
MCVersions == {3003, 3007, 3889}
=============================================================================
