--------------------------- MODULE MCPortListeners ---------------------------
(* The containers and ports of small instances of PortListeners for TLC. *)
EXTENDS PortListeners

CONSTANTS web, db, http, psql
=============================================================================
