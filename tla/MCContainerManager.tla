------------------------- MODULE MCContainerManager -------------------------
(* Instances of ContainerManager for TLC. *)
EXTENDS ContainerManager, TLC

CONSTANTS alpine, debian

Prm(src, bridge, limits, restart) ==
    [src |-> src, bridge |-> bridge, limits |-> limits, restart |-> restart]

\* An isolated, limited container that is restarted at boot.
OneKind == {Prm(alpine, TRUE, TRUE, "always")}

\* And one with a rootfs of its own, whose policy Create refuses at the end.
OneRefused == OneKind \cup {Prm(External, TRUE, TRUE, "sometimes")}

\* Others, from another image and from what is there already, without limits.
Sources ==
    {Prm(alpine, TRUE, FALSE, "always"), Prm(debian, FALSE, FALSE, "no"),
     Prm(Existing, TRUE, FALSE, "no")}

\* No name is cut.
OwnLink == [n \in Names |-> n]

Symmetric == Permutations(Objs) \cup Permutations(Pids)
=============================================================================
