--------------------------- MODULE MCShellSessions ---------------------------
(* The sessions of small instances of ShellSessions for TLC. *)
EXTENDS ShellSessions

CONSTANTS s1, s2, s3
=============================================================================
