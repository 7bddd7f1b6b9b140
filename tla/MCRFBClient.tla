----------------------------- MODULE MCRFBClient -----------------------------
(* Values of the constants of RFBClient for TLC. *)
EXTENDS RFBClient

\* Too old, between two supported versions, one for each branch, newer than we speak.
MCServerVersions == {3002, 3006, 3007, 3889}
\* What VNCDoToolFactory offers by default, and the encodings it can decode.
DefaultEncodings == {"raw", "desktopSize", "qemuKey", "lastRect"}
AllEncodings == DefaultEncodings \cup
  {"copyRect", "rre", "corre", "hextile", "zrle", "cursor", "unknown"}
=============================================================================
