---------------------------- MODULE PortListeners ----------------------------
(***************************************************************************)
(* The daemon's TCP listeners for forwarded ports, and the CLI commands    *)
(* that open and close them (cmd/aetheria/main.go): "create" creates and   *)
(* starts a container and then forwards its port, "rm" stops forwarding    *)
(* and then stops and removes it, and a reconnecting agent makes the       *)
(* daemon forward the ports of all running containers again.               *)
(***************************************************************************)
EXTENDS Naturals

CONSTANTS
    Containers,
    Ports,
    Nobody,
    MaxRm       \* how often "rm" is tried for a container

ASSUME ListenAssumption == MaxRm \in Nat

\* The goroutines running listenPortForward: one for "create", one for a restore.
Goroutines == Containers \X {"create", "restore"}

ASSUME NobodyAssumption == Nobody \notin Goroutines

VARIABLES
    portOf,     \* the host port of "-p" in each container's "create" command
    status,     \* of each container, at the agent
    creating,   \* what each container's "create" command will do next
    removing,   \* what its "rm" command will do next
    removals,   \* how often "rm" was tried
    listed,     \* containers restorePortForwards found running
    restoring,  \* its state
    gor,        \* each goroutine: "bound" has the port, but is not registered yet
    refused,    \* history: goroutines whose Listen failed on a port no other had
    registered  \* pfListeners: port |-> goroutine that accepts on it

vars == <<portOf, status, creating, removing, removals, listed, restoring, gor, refused, registered>>

TypeOK ==
    /\ portOf \in [Containers -> Ports]
    /\ status \in [Containers -> {"none", "created", "running", "stopped"}]
    /\ creating \in [Containers -> {"create", "start", "forward", "done"}]
    /\ removing \in [Containers -> {"list", "unforward", "stop", "remove"}]
    /\ removals \in [Containers -> 0..MaxRm]
    /\ listed \in SUBSET Containers /\ restoring \in {"idle", "listed", "done"}
    /\ gor \in [Goroutines -> {"none", "spawned", "bound", "serving", "over"}]
    /\ refused \in SUBSET Goroutines
    /\ registered \in [Ports -> Goroutines \cup {Nobody}]

Init ==
    /\ portOf \in [Containers -> Ports]
    /\ status = [c \in Containers |-> "none"]
    /\ creating = [c \in Containers |-> "create"]
    /\ removing = [c \in Containers |-> "list"]
    /\ removals = [c \in Containers |-> 0]
    /\ listed = {} /\ restoring = "idle"
    /\ gor = [g \in Goroutines |-> "none"] /\ refused = {}
    /\ registered = [p \in Ports |-> Nobody]

Port(g) == portOf[g[1]]
\* The kernel lets one socket listen on a port.
BoundAny(p) == \E g \in Goroutines : gor[g] \in {"bound", "serving"}
Bound(p) == \E g \in Goroutines : Port(g) = p /\ gor[g] \in {"bound", "serving"}

-----------------------------------------------------------------------------
\* startPortForwards: one goroutine per port.
Spawned(cs, by) ==
    [g \in Goroutines |-> IF g[1] \in cs /\ g[2] = by THEN "spawned" ELSE gor[g]]

\* stopPortForwards: close the registered listener of a port, if there is one.
Kept(p) == gor
AllClosed(p) == [g \in Goroutines |-> IF gor[g] = "serving" THEN "over" ELSE gor[g]]
Closed(p) == IF registered[p] = Nobody THEN gor ELSE [gor EXCEPT ![registered[p]] = "over"]

Forgotten(p) == [registered EXCEPT ![p] = Nobody]

\* The listener that stopPortForwards closes for container c.
Unforward(c) ==
    /\ gor' = Closed(portOf[c]) /\ registered' = Forgotten(portOf[c])

-----------------------------------------------------------------------------
\* aetheria create: three requests in a row.
Create(c) ==
    /\ creating[c] = "create" /\ status[c] = "none"
    /\ status' = [status EXCEPT ![c] = "created"]
    /\ creating' = [creating EXCEPT ![c] = "start"]
    /\ UNCHANGED <<portOf, removing, removals, listed, restoring, gor, refused, registered>>

\* A failed start ends the command; the container stays.
Start(c) ==
    /\ creating[c] = "start"
    /\ \/ /\ status[c] = "created" /\ status' = [status EXCEPT ![c] = "running"]
          /\ creating' = [creating EXCEPT ![c] = "forward"]
       \/ UNCHANGED status /\ creating' = [creating EXCEPT ![c] = "done"]
    /\ UNCHANGED <<portOf, removing, removals, listed, restoring, gor, refused, registered>>

Forward(c) ==
    /\ creating[c] = "forward" /\ creating' = [creating EXCEPT ![c] = "done"]
    /\ gor' = Spawned({c}, "create")
    /\ UNCHANGED <<portOf, status, removing, removals, listed, restoring, refused, registered>>

Exit(c) ==
    /\ status[c] = "running" /\ status' = [status EXCEPT ![c] = "stopped"]
    /\ UNCHANGED <<portOf, creating, removing, removals, listed, restoring, gor, refused, registered>>

-----------------------------------------------------------------------------
\* listenPortForward: Listen fails if the port is taken, by a goroutine of the daemon
\* or by another program, or not allowed. It is only logged and not tried again.
Listen(g) ==
    /\ gor[g] = "spawned"
    /\ \/ /\ ~Bound(Port(g)) /\ UNCHANGED refused
          /\ gor' = [gor EXCEPT ![g] = "bound"]
       \/ /\ refused' = IF Bound(Port(g)) THEN refused ELSE refused \cup {g}
          /\ gor' = [gor EXCEPT ![g] = "over"]
    /\ UNCHANGED <<portOf, status, creating, removing, removals, listed, restoring,
                   registered>>

Register(g) ==
    /\ gor[g] = "bound" /\ gor' = [gor EXCEPT ![g] = "serving"]
    /\ registered' = [registered EXCEPT ![Port(g)] = g]
    /\ UNCHANGED <<portOf, status, creating, removing, removals, listed, restoring, refused>>

\* restorePortForwards, started when a connection's ping was answered.
List ==
    /\ restoring = "idle" /\ restoring' = "listed"
    /\ listed' = {c \in Containers : status[c] = "running"}
    /\ UNCHANGED <<portOf, status, creating, removing, removals, gor, refused, registered>>

Restore ==
    /\ restoring = "listed" /\ restoring' = "done"
    /\ gor' = Spawned(listed, "restore")
    /\ UNCHANGED <<portOf, status, creating, removing, removals, listed, refused, registered>>

-----------------------------------------------------------------------------
\* aetheria rm: list, stop forwarding, stop, remove; an error ends the command.
Step(c, next) == removing' = [removing EXCEPT ![c] = next]

RmList(c) ==
    /\ removing[c] = "list" /\ removals[c] < MaxRm
    /\ removals' = [removals EXCEPT ![c] = @ + 1]
    /\ Step(c, IF status[c] = "none" THEN "stop" ELSE "unforward")
    /\ UNCHANGED <<portOf, status, creating, listed, restoring, gor, refused, registered>>

RmUnforward(c) ==
    /\ removing[c] = "unforward" /\ Step(c, "stop")
    /\ Unforward(c)
    /\ UNCHANGED <<portOf, status, creating, removals, listed, restoring, refused>>

\* Stop only signals the process, and answers with an error if none runs.
RmStop(c) ==
    /\ removing[c] = "stop"
    /\ Step(c, IF status[c] = "running" THEN "remove" ELSE "list")
    /\ UNCHANGED <<portOf, status, creating, removals, listed, restoring, gor, refused, registered>>

\* Remove refuses a container that is still running.
RmRemove(c) ==
    /\ removing[c] = "remove" /\ Step(c, "list")
    /\ status' = IF status[c] = "running" THEN status ELSE [status EXCEPT ![c] = "none"]
    /\ UNCHANGED <<portOf, creating, removals, listed, restoring, gor, refused, registered>>

Next ==
    \/ \E c \in Containers :
          \/ Create(c) \/ Start(c) \/ Forward(c) \/ Exit(c)
          \/ RmList(c) \/ RmUnforward(c) \/ RmStop(c) \/ RmRemove(c)
    \/ \E g \in Goroutines : Listen(g) \/ Register(g)
    \/ List \/ Restore

Spec == Init /\ [][Next]_vars

-----------------------------------------------------------------------------
\* Whoever accepts on a port can be found and closed by stopPortForwards: one
\* goroutine at most has the port, and the map names it (main.go:1036-1057).
Closable ==
    \A g, h \in Goroutines :
        /\ gor[g] = "serving" => registered[Port(g)] = g
        /\ gor[g] \in {"bound", "serving"} /\ gor[h] \in {"bound", "serving"}
              /\ Port(g) = Port(h) => g = h

Served(c) == \E g \in Goroutines : Port(g) = portOf[c] /\ gor[g] = "serving"

\* No other container forwards the same host port.
PortAlone(c) == \A d \in Containers : portOf[d] = portOf[c] => d = c

\* The container's listeners have not all come to their end, or to accepting.
Trying(c) == \E by \in {"create", "restore"} : gor[<<c, by>>] \in {"spawned", "bound"}

\* Of a host port that no other container asks for: when the goroutines that were to
\* listen on it have done so or given up, the container is served, unless somebody
\* removed it or the system refused the port to the very goroutine in question.  So
\* a forward is lost neither between a create and a restore, which find the port with
\* each other (main.go:1031-1042), nor to listeners of other ports; and a refusal,
\* which is only logged, is made up for by the next restore.
ForwardTried ==
    \A g \in Goroutines :
        PortAlone(g[1]) /\ gor[g] # "none" /\ ~Trying(g[1])
            => Served(g[1]) \/ removals[g[1]] > 0 \/ g \in refused

\* Once served it stays so until it is removed itself: neither a restore nor the
\* removal of others takes its listener.
StaysForwarded ==
    [][\A c \in Containers :
          PortAlone(c) /\ Served(c) /\ removals'[c] = 0 => Served(c)']_vars

\* What README.md:146 and the usage text of main.go:233 say of "rm": it stops the
\* container and removes it, so that none of the name is left when the command ends
\* (unless a "create" of the name is still under way).
RmRemoves ==
    [][\A c \in Containers :
          creating[c] = "done" /\ removing[c] # "list" /\ removing'[c] = "list"
              => status'[c] = "none"]_vars
=============================================================================
