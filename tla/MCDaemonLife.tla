----------------------------- MODULE MCDaemonLife -----------------------------
(* A small instance of DaemonLife: a command and a stop, two connections. *)
EXTENDS DaemonLife

CONSTANTS c1, c2
=============================================================================
