---------------------------- MODULE MCRFBSession -----------------------------
(* Values of the constants of RFBSession for TLC. *)
EXTENDS RFBSession

\* One for each branch, and Apple's, newer than the client speaks.
MCServerVersions == {3003, 3007, 3889}
DefaultEncodings == {"raw", "desktopSize", "qemuKey", "lastRect"}
PixelEncodings == {"raw", "rre", "zrle", "hextile", "copyRect", "cursor"}
MCEncodings == DefaultEncodings \cup PixelEncodings
MCServerUses == {DefaultEncodings, PixelEncodings}
=============================================================================
