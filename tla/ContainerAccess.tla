---------------------------- MODULE ContainerAccess ----------------------------
(***************************************************************************)
(* What reaches into a running container (cmd/aetheria-agent): "exec",     *)
(* which enters the namespaces of its process, and forwarded connections,  *)
(* which the agent dials at its address (container.go, portforward.go).    *)
(*                                                                         *)
(* The agent serves one request at a time, Start among them; processes     *)
(* end, are torn down and set up their file systems meanwhile.             *)
(***************************************************************************)
EXTENDS BridgeNetwork

CONSTANTS
    Copied,   \* containers whose rootfs is a copy, or a given path: no mount point
    Runners   \* bound: containers that commands are run in

ASSUME AccessAssumption ==
    /\ Copied \subseteq Containers /\ Runners \subseteq Containers

VARIABLES
    root,    \* the root of the mount namespace of each process: "vm" or its "own"
    init,    \* where its containerInit is
    request  \* the agent's current request, Idle between two, and during a Start

accessVars == <<root, init, request>>
allVars == <<vars, accessVars>>

Idle == [kind |-> "none"]
Execs == [kind : {"exec"}, of : Runners, pc : {"found", "inside"},
          root : {"vm", "own"}, ready : BOOLEAN]
Forwards == [kind : {"forward"}, of : Containers, addr : Addresses,
             to : Containers \cup {Nobody}]

AccessTypeOK ==
    /\ TypeOK
    /\ root \in [Containers -> {"vm", "own"}]
    /\ init \in [Containers -> {"mounts", "entered", "waiting"}]
    /\ request \in {Idle} \cup Execs \cup Forwards

AccessInit ==
    /\ Init /\ request = Idle
    /\ root = [c \in Containers |-> "vm"]
    /\ init = [c \in Containers |-> "mounts"]

Free == starting = Nobody /\ request = Idle
\* Container.Status is "running": from Start to the publication of the end.
Running(c) == stage[c] # "off"

-----------------------------------------------------------------------------
\* Start is a request too; its process begins with the VM's mounts.
AccessBegin(c) ==
    /\ request = Idle /\ Begin(c)
    /\ root' = [root EXCEPT ![c] = "vm"] /\ init' = [init EXCEPT ![c] = "mounts"]
    /\ UNCHANGED request

\* containerInit runs while Start goes on.  It has made its mounts private and
\* mounted proc and the volumes; now pivot_root, which succeeds where the rootfs
\* is a mount point, or else chroot, which leaves the root of the mount namespace
\* alone.
EnterRoot(c) ==
    /\ alive[c] /\ init[c] = "mounts" /\ c \in Runners
    /\ root' = [root EXCEPT ![c] = IF c \in Copied THEN @ ELSE "own"]
    /\ init' = [init EXCEPT ![c] = "entered"]
    /\ UNCHANGED <<vars, request>>

\* "container ready, waiting for commands".
InitReady(c) ==
    /\ alive[c] /\ init[c] = "entered"
    /\ init' = [init EXCEPT ![c] = "waiting"]
    /\ UNCHANGED <<vars, root, request>>

-----------------------------------------------------------------------------
\* ContainerManager.Exec finds the container running, and its process in /proc,
\* where it stays, ended or not, until the goroutine that waits has reaped it.
ExecFind(c) ==
    /\ Free /\ Running(c) /\ stage[c] # "torn"
    /\ request' = [kind |-> "exec", of |-> c, pc |-> "found",
                   root |-> "vm", ready |-> FALSE]
    /\ UNCHANGED <<vars, root, init>>

\* nsenter enters the namespaces as they are by now; those of a process that has
\* ended meanwhile are gone, and its failure is the command's exit code.
ExecEnter ==
    LET c == request.of
    IN  /\ request.kind = "exec" /\ request.pc = "found"
        /\ request' = IF alive[c]
                      THEN [request EXCEPT !.pc = "inside", !.root = root[c],
                                           !.ready = init[c] = "waiting"]
                      ELSE Idle
        /\ UNCHANGED <<vars, root, init>>

\* The command ends, or is killed with its PID namespace.
ExecEnd ==
    /\ request.kind = "exec" /\ request.pc = "inside"
    /\ request' = Idle /\ UNCHANGED <<vars, root, init>>

-----------------------------------------------------------------------------
\* lookupPortForward finds a running container of the port, under the mutex; one
\* without an address is an error.
LookupIP(c) == shown[c]

ForwardLookup(c) ==
    /\ Free /\ Running(c) /\ LookupIP(c) # NoIP
    /\ request' = [kind |-> "forward", of |-> c, addr |-> LookupIP(c), to |-> Nobody]
    /\ UNCHANGED <<vars, root, init>>

\* The containers that have an address on the bridge: also those whose setup gave
\* up after the address was set.
At(addr) == {d \in Containers : alive[d] /\ pair[d] = "inside" /\ ip[d] = addr}

\* The dial, without the mutex, ends at whoever has the address by then.
ForwardDial ==
    /\ request.kind = "forward" /\ request.to = Nobody /\ bridge = "up"
    /\ \E d \in At(request.addr) : request' = [request EXCEPT !.to = d]
    /\ UNCHANGED <<vars, root, init>>

\* The answer is sent; the dial may also fail, or find nobody for five seconds.
ForwardEnd ==
    /\ request.kind = "forward"
    /\ request' = Idle /\ UNCHANGED <<vars, root, init>>

-----------------------------------------------------------------------------
AccessNext ==
    \/ \E c \in Containers :
          \/ AccessBegin(c)
          \/ /\ \/ Ensure(c) \/ CreatePair(c) \/ MovePeer(c) \/ Configure(c)
                \/ Die(c) \/ Teardown(c) \/ Publish(c)
             /\ UNCHANGED accessVars
          \/ EnterRoot(c) \/ InitReady(c) \/ ForwardLookup(c)
    \/ \E c \in Runners : ExecFind(c)
    \/ ExecEnter \/ ExecEnd \/ ForwardDial \/ ForwardEnd

AccessSpec == AccessInit /\ [][AccessNext]_allVars

-----------------------------------------------------------------------------
\* A connection that the agent bridges ends at the container that was looked up
\* for its port, although that one may end, and its links be deleted, between the
\* lookup and the dial, until the pool of addresses has been handed out once
\* (portforward.go:47-60).
DialReachesOwner ==
    request.kind = "forward" /\ request.to # Nobody /\ allocated <= Pool
        => request.to = request.of

\* A command that "exec" runs in a container whose init has said that it is ready
\* has the container's file system as its root.  The comment on pivot_root
\* (container.go:798) takes the rootfs for a mount point, whatever it is: a
\* bind mount of setupContainerMounts makes it one.
ExecSeesOwnRoot ==
    request.kind = "exec" /\ request.pc = "inside" /\ request.ready
        => request.root = "own"
================================================================================
