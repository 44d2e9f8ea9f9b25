------------------------------- MODULE Tunnels -------------------------------
(***************************************************************************)
(* The tunnel of one TCP connection to a forwarded port                    *)
(* (cmd/aetheria/main.go, cmd/aetheria-agent/portforward.go).              *)
(*                                                                         *)
(* For each TCP client the daemon asks the agent to connect; the agent     *)
(* dials the container and then, on another vsock port, the daemon.  One   *)
(* goroutine accepts these data channels and files each under its port;    *)
(* the client's goroutine polls the file and bridges what it finds.        *)
(***************************************************************************)
EXTENDS Naturals, Sequences

CONSTANTS
    Clients,  \* TCP connections accepted on the forwarded ports; also names of
              \* the data channels the agent dials for them
    Forwarded, PortOf, \* PortOf \in [Clients -> Forwarded]
    NoChannel

ASSUME TunnelAssumption == NoChannel \notin Clients /\ PortOf \in [Clients -> Forwarded]

VARIABLES
    client,  \* what each client's goroutine is doing
    dialled, \* channels in the queue of the listener, oldest first
    pending, \* pendingPFConns: port |-> channel
    bridge,  \* the channel each client was bridged with
    calm     \* history: ports whose clients came one at a time so far, each
             \* channel before the client gave up and with its header

tunnelVars == <<client, dialled, pending, bridge, calm>>

TunnelTypeOK ==
    /\ client \in [Clients -> {"new", "connect", "poll", "bridged", "over", "closed"}]
    /\ dialled \in Seq(Clients)
    /\ pending \in [Forwarded -> Clients \cup {NoChannel}]
    /\ bridge \in [Clients -> Clients \cup {NoChannel}]
    /\ calm \subseteq Forwarded

TunnelInit ==
    /\ client = [t \in Clients |-> "new"]
    /\ dialled = <<>>
    /\ pending = [p \in Forwarded |-> NoChannel]
    /\ bridge = [t \in Clients |-> NoChannel]
    /\ calm = Forwarded

-----------------------------------------------------------------------------
\* The slot of pendingPFConns a client looks into, or a channel is filed under.
AnySlot(t) == CHOOSE p \in Forwarded : TRUE
Slot(t) == PortOf[t]

\* What is left in the slot when its channel was taken.
Left(p) == pending[p]
Taken(p) == NoChannel

\* Another client of the port awaits its channel.
Alone(t) ==
    \A u \in Clients : PortOf[u] = PortOf[t] => client[u] \notin {"connect", "poll"}

\* The fifty polls of twenty milliseconds are over.
NeverOver == FALSE
PollsOver == TRUE

Queued(t) == \E i \in 1..Len(dialled) : dialled[i] = t

\* The port is not calm any more, if b.
Stirred(t, b) == calm' = IF b THEN calm \ {PortOf[t]} ELSE calm

-----------------------------------------------------------------------------
\* The listener's Accept; the goroutine calls sendToAgent.
Accept(t) ==
    /\ client[t] = "new"
    /\ client' = [client EXCEPT ![t] = "connect"]
    /\ Stirred(t, ~Alone(t))
    /\ UNCHANGED <<dialled, pending, bridge>>

\* handlePortForwardConnect, one at a time because sendToAgent is: the agent
\* dials the container and the daemon, and writes the header.
Connect(t) ==
    /\ client[t] = "connect"
    /\ dialled' = Append(dialled, t)
    /\ client' = [client EXCEPT ![t] = "poll"]
    /\ UNCHANGED <<pending, bridge, calm>>

\* No container runs with the port, or one of the dials fails.
Refuse(t) ==
    /\ client[t] = "connect"
    /\ client' = [client EXCEPT ![t] = "closed"]
    /\ UNCHANGED <<dialled, pending, bridge, calm>>

\* The agent has dialled, but sendToAgent fails to read its answer.
Abandon(t) ==
    /\ client[t] = "connect"
    /\ dialled' = Append(dialled, t)
    /\ client' = [client EXCEPT ![t] = "closed"]
    /\ Stirred(t, TRUE)
    /\ UNCHANGED <<pending, bridge>>

\* bridgePortForwards: accept, read the header, file the channel; one that ends
\* before its header is closed.
File ==
    /\ dialled # <<>> /\ dialled' = Tail(dialled)
    /\ pending' = [pending EXCEPT ![Slot(Head(dialled))] = Head(dialled)]
    /\ UNCHANGED <<client, bridge, calm>>

Discard ==
    /\ dialled # <<>> /\ dialled' = Tail(dialled)
    /\ Stirred(Head(dialled), TRUE)
    /\ UNCHANGED <<client, pending, bridge>>

Poll(t) ==
    /\ client[t] = "poll" /\ pending[Slot(t)] # NoChannel
    /\ bridge' = [bridge EXCEPT ![t] = pending[Slot(t)]]
    /\ pending' = [pending EXCEPT ![Slot(t)] = Taken(Slot(t))]
    /\ client' = [client EXCEPT ![t] = "bridged"]
    /\ UNCHANGED <<dialled, calm>>

Timeout(t) ==
    /\ client[t] = "poll" /\ pending[Slot(t)] = NoChannel /\ PollsOver
    /\ client' = [client EXCEPT ![t] = "closed"]
    /\ Stirred(t, Queued(t))
    /\ UNCHANGED <<dialled, pending, bridge>>

\* One direction ends: both connections are closed.
End(t) ==
    /\ client[t] = "bridged"
    /\ client' = [client EXCEPT ![t] = "over"]
    /\ UNCHANGED <<dialled, pending, bridge, calm>>

TunnelNext ==
    \/ \E t \in Clients :
          \/ Accept(t) \/ Connect(t) \/ Refuse(t) \/ Abandon(t)
          \/ Poll(t) \/ Timeout(t) \/ End(t)
    \/ File \/ Discard

TunnelSpec == TunnelInit /\ [][TunnelNext]_tunnelVars

\* The goroutines run; the agent answers (DaemonRpc: or its deadline does).
TunnelFairSpec ==
    /\ TunnelSpec /\ WF_tunnelVars(File \/ Discard)
    /\ \A t \in Clients :
          WF_tunnelVars(Connect(t) \/ Refuse(t)) /\ WF_tunnelVars(Poll(t) \/ Timeout(t))

-----------------------------------------------------------------------------
\* No two clients ever share a channel, and a client's channel leads to the port
\* it connected to (main.go:1081-1094, 1145-1147).
Exclusive ==
    \A t, u \in Clients :
        bridge[t] # NoChannel =>
            /\ bridge[t] = bridge[u] => t = u
            /\ PortOf[bridge[t]] = PortOf[t]

\* A client is bridged with the channel the agent dialled for it, "with matching
\* header" (main.go:1078), on a port that was calm so far, whatever the clients of
\* other ports do.
OwnTunnel == \A t \in Clients : PortOf[t] \in calm => bridge[t] \in {t, NoChannel}

\* A channel the agent opened for a client of such a port is in the queue, filed,
\* or bridged; else nobody will ever read or close it.
Conserved ==
    \A t \in Clients :
        PortOf[t] \in calm /\ client[t] \in {"poll", "bridged", "over"} =>
            \/ Queued(t)
            \/ pending[PortOf[t]] = t
            \/ \E u \in Clients : bridge[u] = t

\* Every TCP client is bridged or closed in the end (main.go:1083-1100).
Ended ==
    \A t \in Clients : client[t] = "connect" ~> client[t] \in {"bridged", "closed"}
=============================================================================
