---------------------------- MODULE BridgeNetwork ----------------------------
(***************************************************************************)
(* Bridge networking of containers (cmd/aetheria-agent/network.go): one    *)
(* bridge made once, an address counter, and a veth pair per container     *)
(* whose host end bears the container's name cut to 15 characters.         *)
(*                                                                         *)
(* Start sets a network up under the manager's mutex; the goroutine that   *)
(* waits for the process tears it down without it.                         *)
(***************************************************************************)
EXTENDS Naturals

CONSTANTS
    Containers,      \* names of containers in bridge mode
    Nobody, NoIP,
    FirstIP, LastIP, \* 2 and 254: last byte of the addresses handed out
    HostEnd,         \* [Containers -> names of links]: "veth-<name>", truncated
    PeerEnd          \* [Containers -> names of links]: "vp-<name>", truncated

ASSUME NetAssumption ==
    /\ Nobody \notin Containers /\ NoIP \notin Nat
    /\ FirstIP \in 1..LastIP /\ LastIP \in 1..254

VARIABLES
    nextIP,    \* the counter, a uint8
    allocated, \* number of addresses handed out, counted up to Pool + 1
    once,      \* bridgeOnce has run
    bridge,    \* the bridge: "unusable" when it is not up, or has no address
    starting,  \* the container whose Start holds the mutex
    stage,     \* of each container's setup and teardown
    alive,     \* its process, hence its network namespace, exists
    pair,      \* its veth pair: none, both ends on the host, one end inside
    ip,        \* the address its setup took
    shown      \* Container.IP, what list and portforward use

vars == <<nextIP, allocated, once, bridge, starting, stage, alive, pair, ip, shown>>

Pool == LastIP - FirstIP + 1
Addresses == FirstIP..LastIP

TypeOK ==
    /\ nextIP \in Addresses /\ allocated \in 0..Pool + 1
    /\ once \in BOOLEAN /\ bridge \in {"none", "unusable", "up"}
    /\ starting \in Containers \cup {Nobody}
    /\ stage \in [Containers -> {"off", "ensure", "create", "move", "configure",
                                 "on", "torn"}]
    /\ alive \in [Containers -> BOOLEAN]
    /\ pair \in [Containers -> {"none", "host", "inside"}]
    /\ ip \in [Containers -> Addresses \cup {NoIP}]
    /\ shown \in [Containers -> Addresses \cup {NoIP}]

Init ==
    /\ nextIP = FirstIP /\ allocated = 0
    /\ once = FALSE /\ bridge = "none"
    /\ starting = Nobody
    /\ stage = [c \in Containers |-> "off"]
    /\ alive = [c \in Containers |-> FALSE]
    /\ pair = [c \in Containers |-> "none"]
    /\ ip = [c \in Containers |-> NoIP]
    /\ shown = [c \in Containers |-> NoIP]

-----------------------------------------------------------------------------
\* allocateIP's increment, in eight bits.
NeverWraps(n) == n + 1
WrapsEarly(n) == IF (n + 1) % 256 >= LastIP THEN FirstIP ELSE n + 1
Increment(n) == IF (n + 1) % 256 > LastIP THEN FirstIP ELSE (n + 1) % 256

\* "ip link add" fails if a link of either name is on the host.
NamesFree(c) ==
    \A d \in Containers :
        /\ pair[d] # "none" => HostEnd[d] # HostEnd[c]
        /\ pair[d] = "host" => PeerEnd[d] # PeerEnd[c]

\* The pairs that "ip link del" of c's host end deletes.
DeletesOwnShown(c, d) == HostEnd[d] = HostEnd[c] /\ shown[c] # NoIP
Deletes(c, d) == HostEnd[d] = HostEnd[c]

\* cmd.Wait has returned.
ExitedAlways(c) == TRUE
Exited(c) == ~alive[c]

-----------------------------------------------------------------------------
\* Start has launched the process and calls setupBridgeNetwork.
Begin(c) ==
    /\ starting = Nobody /\ stage[c] = "off"
    /\ starting' = c
    /\ stage' = [stage EXCEPT ![c] = "ensure"]
    /\ alive' = [alive EXCEPT ![c] = TRUE]
    /\ UNCHANGED <<nextIP, allocated, once, bridge, pair, ip, shown>>

\* An error of the setup is not fatal: the container runs without a network.
GiveUp(c) ==
    /\ stage' = [stage EXCEPT ![c] = "on"] /\ starting' = Nobody

Proceed(c, next) ==
    /\ stage' = [stage EXCEPT ![c] = next] /\ UNCHANGED starting

Allocate(c) ==
    /\ ip' = [ip EXCEPT ![c] = nextIP]
    /\ nextIP' = Increment(nextIP)
    /\ allocated' = IF allocated > Pool THEN allocated ELSE allocated + 1

\* ensureBridge returns an error only to the call that runs it, and only when the
\* bridge cannot be brought up: that it cannot be given its address is logged.
\* Every later call goes on to allocateIP, whatever became of the bridge.
Ensure(c) ==
    /\ stage[c] = "ensure" /\ once' = TRUE
    /\ \/ /\ ~once /\ bridge' \in {"unusable", "up"}
          /\ Allocate(c) /\ Proceed(c, "create")
       \/ /\ ~once /\ bridge' \in {"none", "unusable"}
          /\ GiveUp(c) /\ UNCHANGED <<ip, nextIP, allocated>>
       \/ once /\ Allocate(c) /\ Proceed(c, "create") /\ UNCHANGED bridge
    /\ UNCHANGED <<alive, pair, shown>>

CreatePair(c) ==
    /\ stage[c] = "create"
    /\ \/ /\ NamesFree(c) /\ Proceed(c, "move")
          /\ pair' = [pair EXCEPT ![c] = "host"]
       \/ GiveUp(c) /\ UNCHANGED pair
    /\ UNCHANGED <<nextIP, allocated, once, bridge, alive, ip, shown>>

\* "ip link set" finds a bridge to attach the host end to.
NoAttach == TRUE
Attaches == bridge # "none"

\* Attach the host end to the bridge, move the peer into the namespace.
MovePeer(c) ==
    LET possible == pair[c] = "host" /\ alive[c] /\ Attaches
    IN  /\ stage[c] = "move"
        /\ \/ /\ possible /\ Proceed(c, "configure")
              /\ pair' = [pair EXCEPT ![c] = "inside"]
           \/ GiveUp(c) /\ UNCHANGED pair
        /\ UNCHANGED <<nextIP, allocated, once, bridge, alive, ip, shown>>

\* Name the peer eth0, give it the address, bring it up, add the route.
Configure(c) ==
    LET possible == pair[c] = "inside" /\ alive[c]
    IN  /\ stage[c] = "configure" /\ GiveUp(c)
        /\ \/ possible /\ shown' = [shown EXCEPT ![c] = ip[c]]
           \/ UNCHANGED shown
        /\ UNCHANGED <<nextIP, allocated, once, bridge, alive, pair, ip>>

\* The process ends: its namespace, and the pair's end inside it, go.
Die(c) ==
    /\ alive[c] /\ alive' = [alive EXCEPT ![c] = FALSE]
    /\ pair' = [pair EXCEPT ![c] = IF @ = "inside" THEN "none" ELSE @]
    /\ UNCHANGED <<nextIP, allocated, once, bridge, starting, stage, ip, shown>>

\* teardownBridgeNetwork, without the mutex; also after a failed setup.
Teardown(c) ==
    /\ stage[c] = "on" /\ Exited(c)
    /\ stage' = [stage EXCEPT ![c] = "torn"]
    /\ pair' = [d \in Containers |-> IF Deletes(c, d) THEN "none" ELSE pair[d]]
    /\ UNCHANGED <<nextIP, allocated, once, bridge, starting, alive, ip, shown>>

\* The waiting goroutine publishes the end, under the mutex.
Publish(c) ==
    /\ starting = Nobody /\ stage[c] = "torn"
    /\ stage' = [stage EXCEPT ![c] = "off"]
    /\ ip' = [ip EXCEPT ![c] = NoIP]
    /\ shown' = [shown EXCEPT ![c] = NoIP]
    /\ UNCHANGED <<nextIP, allocated, once, bridge, starting, alive, pair>>

Next ==
    \E c \in Containers :
        \/ Begin(c) \/ Ensure(c) \/ CreatePair(c) \/ MovePeer(c) \/ Configure(c)
        \/ Die(c) \/ Teardown(c) \/ Publish(c)

Spec == Init /\ [][Next]_vars

-----------------------------------------------------------------------------
\* No two containers hold one address as long as no more than the pool's were
\* handed out, counting those of containers that ended (network.go:39-48).
DistinctUntilWrap ==
    allocated <= Pool =>
        \A c, d \in Containers : ip[c] # NoIP /\ ip[c] = ip[d] => c = d

\* No other container's host end has the name of c's.
NamedAlone(c) == \A d \in Containers : HostEnd[d] = HostEnd[c] => d = c

\* The container's own pair, on a bridge that exists, leads to an address that
\* the manager shows, however setups, failures and teardowns interleave, whatever
\* happens to containers whose names are equal once cut, and although those that
\* start after a failure to make the bridge are not told of it.
ShownIsWired ==
    \A c \in Containers :
        NamedAlone(c) /\ alive[c] /\ shown[c] # NoIP
            => pair[c] = "inside" /\ bridge # "none"

\* A container that ended leaves no link behind, wherever its setup failed.
NoStrayPair == \A c \in Containers : pair[c] # "none" => stage[c] \notin {"off", "torn"}
=============================================================================
