-------------------------- MODULE MCContainerAccess --------------------------
(* A small instance of ContainerAccess, and of BridgeNetwork in it, for TLC. *)
EXTENDS ContainerAccess

CONSTANTS web, webserver1, webserver2

\* The peers' names are short enough to differ after the cut.
Own == [c \in Containers |-> c]

\* "webserver-a1" and "webserver-a2": one "veth-webserver-a", two "vp-" names.
CutNames == [c \in Containers |-> IF c = web THEN web ELSE webserver1]
=============================================================================
