---------------------------- MODULE MCCommandLine ----------------------------
(* Every command line, with and without --delay, --timeout and --password, for TLC. *)
EXTENDS CommandLine

AllFlags == BOOLEAN
=============================================================================
