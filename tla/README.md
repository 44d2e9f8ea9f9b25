# Aetheria: models and proofs

Aetheria runs Linux containers on macOS: a CLI talks to a daemon on the host,
the daemon starts a VM (crosvm) and relays requests to an agent inside it, and
the agent keeps the containers. This directory holds TLA+ models of these
programs, the TLC runs that check them on small instances, and proofs of some
of their properties for every instance. `PROJECT.json` lists components, runs,
theorems, the source lines behind every definition, hazards and findings.

## The system

| Component (source) | State it keeps | Operations |
|---|---|---|
| Container manager (`cmd/aetheria-agent/container.go`) | map of containers under one mutex, `config.json` and rootfs of each on disk | create, start, stop, remove, exec, list, logs; goroutines that wait for a process or kill it; restore and auto-restart at boot |
| Bridge network (`network.go`) | `bridgeOnce`, the address counter, veth pairs in the kernel | set up at start, tear down when the process ends |
| cgroups (`cgroup.go`) | a cgroup per container that has limits | made and filled at start, each step of which may fail; removed when the process ends |
| Exec, container init (`container.go`), port lookup (`portforward.go`) | none: mount namespaces, roots and links are the kernel's | run a command in a container; become its init; look up and dial a forwarded port |
| Images (`images.go`, `oci.go`) | tarballs, layer files, OCI directories with a completion marker, `ociImagePaths`, `authTokenCache` | pull, look up, prepare a container's overlay rootfs, merge layers |
| Shell (`shell.go`, `pty.go`) | `activeSessions`, PTYs, shells | start, replace, stream, end |
| Relay (`cmd/aetheria/main.go`, `cmd/aetheria-agent/main.go`) | `agentConn` under `d.mu` | one request at a time over one vsock stream; reconnect |
| Daemon life (`cmdRun`, `cmdStop` in `main.go`) | sockets' paths, the crosvm process | start the VM, wait a minute for the agent, take commands, pass on signals, end with the VM |
| Port forwards (`main.go`, `portforward.go`) | `pfListeners`, `pendingPFConns` | listen, stop, restore; a data channel per TCP client |
| CLI (`main.go`) | none | one or several requests per command |
| Display app (`AetheriaDisplay/Sources`) | shared frame buffers, textures, control socket | hear of a frame, draw; forward input |

The CLI sends one JSON line to the daemon's socket; the daemon takes `d.mu`,
forwards the line and waits up to ten minutes for the next line that the agent
sends. The agent serves one connection and on it one request at a time. PTY and
port-forward bytes take separate vsock streams that the agent dials; the daemon
files each under a container name or a host port until whoever asked for it
polls it. Inside the agent, goroutines that outlive a request share state with
the handlers: the one that waits for a process, the one that kills it after
five seconds, the one that copies a shell's bytes. Containers, images and their
markers are on disk and outlive the VM; mounts and processes outlive only the
agent; maps outlive nothing.

### What is hard

* Concurrency: the manager releases its mutex around mounts, signals and file
  removal; goroutines clean up by name after the name may be in use again.
* Matching without identifiers: answers are matched by order, channels by port
  and terminals by container name, each under a timeout.
* Crashes: of the VM, of the agent alone, of the daemon's peer, between any two
  of the steps that make up a directory, an image or a container.
* Ignored errors: of `saveConfig`, `RemoveAll`, `ensureBridge`, the marker.
* Bounds: an eight-bit address counter, link names of fifteen characters.

What makes each component correct:

* manager: every live process is the one its container names; clean-up never
  hits a successor; what was acknowledged survives a restart, what was removed
  stays removed; an accepted stop takes effect;
* network: distinct addresses, a shown address works, no stray link;
* access: a command sees its container's files, a dial reaches its container;
* relay: each client hears the answer to its own request, and ends;
* daemon: it ends with its VM, and never before one that it has used;
* tunnels, listeners, shells: the right two ends are connected, nothing stays
  open for nobody, nobody is turned away;
* images: containers run on whole images, on the right one, on the same one;
* layer merge: the result is what the image specification defines;
* display: a signalled frame is shown, and never half painted.

`PROJECT.json` lists the hazards behind these, each at its line. Those no
property covers carry a note.

## Modules

In the order they were written; the most important part of the system first.

| Module | Models |
|---|---|
| `ContainerManager` | the manager with all its goroutines, disk, restarts |
| `ContainerService` | what it promises a client: an abstract map of containers; `ContainerManager` implements it (`ImplementsService`) |
| `BridgeNetwork` | set-up and tear-down of veth pairs, command by command |
| `ContainerAccess` | `BridgeNetwork` composed with what reads it and what it runs: container init, exec, forwarded dials |
| `DaemonRpc` | clients, the daemon's goroutines, connections, the agent's loop |
| `DaemonLife` | `DaemonRpc` within one life of the daemon: VM, signals, the wait for the agent, stop |
| `Tunnels` | TCP clients, the agent's dials, the table of pending channels |
| `PortListeners` | listeners with the create, rm and restore that drive them |
| `ShellSessions` | sessions of one container across agent, daemon and CLI |
| `ImageStore` | pulls, look-ups, mounts and crashes over the image cache |
| `LayerMerge` | the merge of one layer, entry by entry |
| `DisplayFrames` | painter, frame signal, main queue, renderer, GPU |

`MC<Module>` extends a module with the values of its constants; each `.cfg` is
a run. Two of them, `MCAccess` and `MCForwards`, check two components that share
no state in one run: the initial state chooses the one that runs, and the other
one stands still, so that the run explores the sum of the two state spaces, not
their product. `<Module>Proofs` holds its theorems. `ContainerAccess` and `DaemonLife`
extend the modules that they compose, and their theorems stand in
`BridgeNetworkProofs` and `DaemonRpcProofs`: each is first shown to implement
what it extends, so that the properties of the part hold in the whole. The
theorems of the two modules of a pull, `ImageStore` and `LayerMerge`, stand in
`ImageProofs`.

### How state and actions correspond to the code

**ContainerManager.** One action is one critical section of `cm.mu`, or one
effect outside it (mount, signal, file removal). `containers` and `heap` keep
the map and the structs apart, because Start compares pointers (line 401).
Each process has a `waiter` whose stages are the goroutine of lines 480-499,
and each stop a `killer` for lines 516-531. `disk` is the container's directory.
A restart of the VM clears everything but `disk`; one of the agent leaves
processes and mounts (constant `AgentRestarts`). `SetupNetwork` may fail, which is
logged, and `LinkOf` maps names to the links they are cut to, which a set-up may find
taken; `wired` is the processes whose end of a pair reached their namespace. The manager is written for
concurrent callers although the agent has one today, so `Callers` is a
constant. `SetupCgroup` may stop after the directory, whether a limit or the move
of the process was refused; `limited` is the processes that were moved, and
`CgroupEmpty` what `cleanupCgroup` reads of them.

**BridgeNetwork.** The stages of a container are the commands of
`setupBridgeNetwork`, each of which may fail and clean up. `HostEnd` and
`PeerEnd` map names to link names, so that truncation is a choice of constants.
The counter is an eight-bit value that runs over `FirstIP..LastIP`. The bridge is
none, unusable or up, once one caller has been through `ensureBridge`.

**ContainerAccess.** Requests come one after the other, as the agent's loop takes
them: an exec finds the pid and enters its namespaces in separate steps, a dial
finds the address and connects in separate steps, while the container's init
mounts, enters its root (`EnterRoot`), says that it is ready (`InitReady`), or ends,
and goroutines tear its pair down. `root` is what
`nsenter -m` finds: the VM's files until `pivot_root`, and for good where that
fails and `chroot` takes its place, as it does for a rootfs that was copied; the
container is ready all the same.

**DaemonRpc.** A connection is a pair of queues with the state each end
believes it in, so that an agent may be gone while the daemon does not know.
Ping at connect is a request as well. A client that gives up after its thirty
seconds tells the daemon nothing, and is no action.

**DaemonLife.** A command connects as soon as the socket's path is there, and
waits in the queue until the daemon takes commands. `Expires` is the minute's
`os.Exit`, which leaves a VM that `sudo` alone could be killed for; `VMHalts` is
any end of crosvm; `Ends` is the deferred calls after `cmd.Wait`. A stop is an
exec of `poweroff`, which the agent may or may not live to answer.

**Tunnels, PortListeners, ShellSessions.** The goroutines of daemon, agent and
CLI for one client, container or session. Channels may come late, clients
may overlap and a channel's header may not be read (`Discard`); `calm` is a history
variable that remembers where none of it has
happened yet, which is what the code silently assumes. `net.Listen` fails for a port
that another goroutine has, and may fail for any other reason at any time; `refused`
remembers that it did. Operators of `Tunnels` and `ShellSessions` carry the
component in their names (`TunnelNext`, `ShellSpec`) where `MCForwards` and `MCAccess`
put them beside another module's.

**ImageStore.** A pull gets a token, which the cache keeps although the registry
lets it expire, the manifest, the layer files, each written under a temporary
name and renamed, and merges layer by layer. A directory's `content` counts
half-merged layers, so that a crash may fall within one. `entry` is `ociImagePaths`' only key, lost at every
restart. `Prepare` looks up the base, perhaps pulls, and `Mount` uses what was
looked up first, as the code does.

**LayerMerge.** Initial states are all small rootfs trees with all small
layers. Actions are what the walk does with a marker, a directory, a link or a
file, and the ways in which the kernel refuses: a file is written through a link,
and not at all where the link's target has no directory. Sibling order is that of the
names, with `.wh.` at a place of its own. Ownership and modes are left out.
Merging several layers is repeating this with the result as the rootfs, which
may be any tree.

**DisplayFrames.** The painter is the test pattern generator, whose source is
here, and which does what crosvm does. The two header words are stored one
after the other; the app loads them in two steps. Frame contents are numbers, or
`Torn` while being painted. Three may be reading at once, each with an entry of
`reads`: `draw(in:)`, which copies a buffer into the one texture or has chosen what to
render, and up to two render passes that were committed (`queue`, `gpu`), which the GPU
reads after `draw(in:)` has returned (`Present`). The entry says what has come since
the memory was chosen: a swap, and then the start of the next paint, or of the next upload.
`GiveUp` is `renderTexture` without a drawable or a command buffer, after
`lastFrameSeq` was stored. The socket is a stream of bytes, which `Read` cuts
into pieces and the actions after it decode; `Resize` is crosvm's, which sends
from the thread that paints.

### History variables and conditional properties

Several promises hold only until something has happened that the code has no
answer to. The models let it happen, and a history variable records it, so that
a property says exactly which executions it covers and TLC and TLAPS look at all
of them:

| Variable | Records | Properties that depend on it |
|---|---|---|
| `DaemonRpc.timedOut` | connections on which a read deadline has passed | `ReplyMatches` |
| `DaemonRpc.sentOn` | the connection each request was written to | `ReplyMatches`, `AnswersStayOnConnection` |
| `Tunnels.calm` | ports whose clients came one at a time, each channel in time and with its header | `OwnTunnel`, `Conserved` |
| `PortListeners.refused` | goroutines to which the system refused their port | `ForwardTried` |
| `ShellSessions.calm` | sessions that followed one another, streams in time | `Tracked`, `OwnShell` |
| `BridgeNetwork.allocated` | addresses handed out, up to one round of the counter | `DistinctUntilWrap` |
| `ImageStore.pulled`, `broken` | the last pull; bases without their marker, or with a tar that stopped half-way | `PulledBase`, `CompleteBases` |
| `DisplayFrames.reads`'s `since`, `texture.late`, `shown.late` | frames read late: before the read was over, its buffer was swapped and the next paint began, or the next upload to its texture | `NoTearing`, `SignalledIsShown` |
| `DisplayFrames.reordered`, `cut`, `missed` | the header's words seen in the other order; a read that ended within a resize message; the last draw had nothing to render to | `SignalledIsShown` |

`late` is of the one frame in the window and `missed` of the last draw: a later draw
makes good for both, and the properties hold again. No guard reads a history variable,
so that none of them restricts a behaviour.

## Runs

| Run | Shows | Bounds, and why they are enough |
|---|---|---|
| `cm_concurrent` | with two callers at once every live process is the one the map names, keeps the network it was given, and neither interface nor cgroup is left behind, also when the network or the limits are refused half-way; each running container has one waiting goroutine, and SIGKILL reaches only what Stop was asked to end | copied rootfs, one restart of the VM or of the agent alone (the theorems cover any number); one name, since containers share nothing but the mutex and, where names are cut to one, a link: that is checked in `access`, and proved here for every `LinkOf`; two processes and three structs: an old and a new incarnation and one being created; one creation is refused for its policy; writes succeed: disk errors with several callers are covered by the theorems only |
| `cm_sequential` | as deployed, with one caller: what was acknowledged survives a VM restart at any step, what was removed stays away, a process runs on its image's rootfs, an accepted stop ends the process, every end is published, and the manager implements `ContainerService` | one name, containers from two images and from a rootfs that is there, with either policy, two structs, two processes, one restart; no limits, which `cm_concurrent` has |
| `access` | distinct addresses until the pool wraps, a shown address is wired, no stray link, whatever command fails; a dial reaches the container that was looked up. And shells: none has two terminals; calm sessions are on record and get their own stream | three containers, two of them with one cut name, one with a copied rootfs, two that commands are run in, and a pool of three, so that it wraps. Three sessions: one replaced, one new, one late |
| `exec_root` (violation) | a command run in a container that is ready has the VM's root, where the rootfs was copied | the first containers of `access`'s instance |
| `rpc` | one's own answer until a deadline has passed on the connection; confusion never crosses connections; every request ends, the agent's new connection is installed, a VM that was told to stop takes the daemon with it; a daemon that ends before its VM has taken no command | a command, a stop and two pings, two connections, so that one breaks or goes silent; each goroutine, deadline, signal and halt once or not at all |
| `forwards` | every accepting listener can be closed; a goroutine whose port no other container asks for gets it, unless the system refuses it or the container is removed, and the forward stays until its own rm. And channels: neither shared nor crossed; calm ports serve each its own and lose none; every client is bridged or closed | two containers with any two ports (one is fixed, by symmetry), the same one too, one rm each, one restore. Three clients of one port and one of another: one replaces, one is replaced, one comes late |
| `shell_ends` (violation) | a shell that writes nothing outlives its terminal | one session |
| `images` | containers run on complete images through crashes in a download, a merge or between two of them, and a new one gets the last pull | two tags and a built-in image of the same short name, two digests of two layers, one container (containers share the cache only), two restarts, one moved tag |
| `layers` | the merge is the image specification's unless a path changes its kind or sorts early; the walk fails only where a path changes its kind | every tree and every layer over a root file and a directory with names on each side of the markers, the later one where links point to |
| `display` | no torn frame but one that was read late; each signalled frame or a later one is shown, but for such a frame, a draw given up, a header seen out of order, a resize message cut or a restart | three frames, of which the last two are signalled, so that each buffer is used again; or fewer and as many events: restarts of the generator, and resize messages of two bytes, read three at a time, so that one may be cut, whole, or followed by a signal; one pass at the GPU, beside the next draw's upload (the theorems have two) |
| `cm_auto_restart` (violation) | containers that were never started, or were stopped on request, come back running | one name, one restart |
| `rm_removes` (violation) | `rm` ends with the container still there, because it does not run, or is still ending | one container, one `rm` |

Each run takes between a few seconds and about two minutes. `DiskFaults`,
`AgentRestarts` and `OverlayFS` of `ContainerManager` are the only switches; in
both runs of the manager writes succeed, since `Durable` is about a config that was
written, and in `cm_sequential` every creation has a policy that Create accepts, since
`RootfsIsImage` fails otherwise (see below).

### Fairness

Weak fairness only, and only for what the Go runtime, the kernel or a dispatch
queue schedules: goroutines that can go on (`Continue`, `Waiter`, `Goroutine`,
`Poll` or `Timeout`), timers that are set, the painter's loop, the main queue, the GPU.
`ContainerManager`'s, `DaemonLife`'s, `Tunnels`', `ShellSessions`' and `DisplayFrames`'
specifications have some; the other modules state safety only.
The environment has none: no client must send, no process must exit (but one
that was killed does), no agent must crash or restart, no window be uncovered.
`DaemonLife` lets the agent hang for ever, or never come; its liveness rests on
deadlines, of a read and of the wait for the agent, and on a VM that was told to
stop and does. Each request locks the mutex at most once, so that weak fairness
lets it have it. Taking a command is fair too: `Accept` on a socket with someone
in its queue returns.
Where CHECK_DEADLOCK is FALSE the modelled clients are finite in number and the
system rests when they are done.

### Deliberate assumptions

A pid is used once: the guards compare pids, and the kernel's reuse of one
within five seconds is not modelled. A write is durable when it returns: after a
power loss a marker may be on disk without the layers, since nothing is synced
before it (`oci.go:461`). A frame painter starts with the buffers that
`TestPattern.swift` makes.

## What the models show besides

The findings in `PROJECT.json` are places where the code and what is written of it
disagree in so many words, each shown by a run of its own:

* `autoRestart` cannot tell who ran (`cm_auto_restart`);
* `rm` does not stop and remove (`rm_removes`);
* a command in a container whose rootfs is no mount point has the VM's root
  (`exec_root`), where `container.go:798` says that it is one;
* closing the PTY does not unblock its reader, and does not kill the shell
  (`shell_ends`), as `pty.go:170` and `shell.go:63` say.

What follows are further executions of the models that a reader of the code may want
to know of; the properties above are stated so as to be true with them. Where
a document claims otherwise, that is said.

Container manager:

* With `DiskFaults`, `saveConfig` may fail in Create, which logs it: the
  container is acknowledged and gone after the next restart (line 174). A
  container whose rootfs is its own directory is not restored either, since the
  restore looks for an image.
* After a restart of the agent alone, running containers are taken for stopped,
  and a start gives them a second process on the same rootfs.
* A create that is refused for its restart policy has mounted, or copied, its
  image's rootfs before and leaves it; the next create of the name, from another
  image, finds `bin/` there and runs on it (lines 315-352, `images.go:260`). So
  does an agent that restarts alone between the mount and the configuration.

Network:

* The 254th start gets an address that may be in use; of names equal in
  their first characters the second gets no link, and when it ends the first loses its own.
* `ensureBridge` runs once; its error is returned to one caller and the next
  ones go on without a bridge. A bridge that only got no address is no error:
  containers are attached to it and their addresses shown, but not reachable.
* A command that is run before the container's init is ready sees the VM's files, for
  `exec` asks for the status only.
* A set-up that fails is only logged: the container runs without an interface, and is
  shown without an address.
* A dial that was looked up before its container ended may, once the pool has
  wrapped, reach another.

Relay:

* After a read deadline every later answer on that connection is taken for the
  following request's.
* The CLI waits thirty seconds and the daemon ten minutes, so that the CLI
  reports a failure of what then succeeds. A command given while the daemon still
  waits for the agent is carried out later, whoever has given up.
* When the minute passes, SIGKILL ends `sudo`, which cannot pass it on: the VM
  may go on with the disk, and `aetheria run` start a second one on it.
* A signal removes the daemon's socket at once and is passed on to crosvm; if
  that goes on, nothing reaches the daemon any more, and no second signal is read.
* Requests and answers between CLI and daemon are read by scanners that take lines
  of up to 64 KB (`main.go:299`, `main.go:573`), while the agent cuts a command's
  output at 10 MB (read in the code; lengths are not modelled).

Tunnels, listeners, shells:

* Of two overlapping clients of a port, one may have its channel replaced and
  never closed; a channel that comes late is bridged with the port's next
  client. `docs/progress/port-forward-cgroup.md` says in lines 114 and 116 that there
  are no race conditions in port forwarding and that connections are cleaned up on
  both sides; line 116 holds of connections that are bridged.
* `net.Listen`'s failure is only logged and not tried again, while the command prints
  the forward as made.
* A create or restore that was listed before an `rm` may open a listener after
  it; the listener can still be closed, by another `rm` of the name
  (`Closable`).
* The end of a replaced session deletes its successor's record; a terminal that
  comes before the stream is turned away. `main.go:863` retries because "the agent
  needs time to dial", but any connection that is made ends the loop, so that only
  a daemon that cannot be reached is tried again.

Images:

* Tags of one repository, and a built-in image and its namesake, share a short
  name: the last one pulled is used for all. After a restart the base is the
  first directory of the cache, which may not be the one that a container's
  upper directory was written over.
* The first create from an image that was never pulled fails although the pull
  succeeds, for the base was looked up before it.
* A token is cached until the agent ends: once it has expired, pulls of its
  repository fail (`Expire`, `oci.go:151`).
* A built-in image that a crash left half unpacked is taken for complete, as is
  one whose tar ended with exit code 2. A marker that could not be written makes
  the next pull delete a rootfs in use.

Layers:

* A name that sorts before `.wh.` is added before its directory's markers are
  applied, so that an opaque marker removes what the same layer added.
* A layer that changes a file into a directory or the reverse makes the merge
  fail; a file over a link is written through the link.

Display:

* The one texture is uploaded to while the GPU may still read it for the frame
  before: that frame is shown torn, until the next one is.
* A draw that finds no drawable or command buffer returns in silence, with its count
  stored: its frame is shown with the next signal, or when the window is uncovered.
* Seen in the other order, the header's words make the app draw the old buffer
  for the new count and skip the new one.
* A resize message that is cut by a read makes the app lose its place: bytes of
  the size are decoded as messages, and frame signals may be lost for it.
* The app does not reconnect when the other end goes.

## Proofs

All theorems hold for every value of the constants that satisfies the modules'
ASSUMEs, checked by TLAPS; four of `ContainerManager`'s have one more hypothesis,
stated in the theorem and named below. Eight modules hold them.

**ContainerManagerProofs.** `IInv` is inductive (`Invariance`): the types; the
map and the heap agree on names; a struct is running exactly if a waiter is at
work for the process it names, and that waiter has not yet published; a killer
belongs to a process that Stop signalled; and every live process that this agent
started is that of a running struct in the map. `TypeOK` and
`RunningHasWaiter` alone are not inductive: a waiter acts on a struct that may
have left the map, so that the invariant must speak of structs that are in no
map and of the stages of each goroutine. Restarts of the agent
alone are within the theorems: a process that outlived its agent has no struct
(`obj` is `NoObj`), and `NetworkKept` speaks of processes that have one.
It holds for every `LinkOf`, of each process whose end of a pair reached its namespace
and whose name alone is cut to its link: a set-up that fails may leave a pair or none, but
takes nobody's. `NoLeaks`, which excepts the names that such a process holds
(`Inherited`), covers set-ups of the network or the limits that stopped half-way; it rests on `CgroupInv`: each
cgroup has a goroutine that has not yet come to its removal, and that will not
skip it, since it asks for the container's limits and not for what `setupCgroup`
achieved; with one process per name, the cgroup is empty when it comes.

`BaseInv` adds to `IInv`, without hypotheses, that a creation under way carries
the parameters of a request and that a struct in the map is in use. What the disk
holds is true only under conditions, and each of the next theorems names the
least that it needs; TLC violates its property on a small instance when any one of
them is dropped.

* `NoResurrection` assumes `Clears`: images are overlay mounts, writes succeed, and
  no creation is refused for its policy. Callers are as many as one likes and both
  the VM and the agent restart. Its invariant adds `Swept`: the configuration of a
  name that the map does not hold belongs to a removal under way, or a restart cut
  that removal short; then its rootfs is gone, whoever was starting the container
  was before the restart, and only a creation that will end well brings a rootfs
  back. `NoGhosts` alone is not inductive: it does not say that a removal comes to
  its `os.RemoveAll` with the rootfs already unmounted, which is why a restart
  between the two steps restores nothing.
* `Durability` and `Implementation` (the refinement of `ContainerService`) assume
  `Saves`: one goroutine calls the manager, writes succeed, and no rootfs lies
  outside its container's directory. Restarts of either kind, copied images and
  refused policies are within them. `Durable` is not inductive by itself: a creation
  that committed without a rootfs would not be restored, so that `SavedInv` adds
  that none goes to its commit without one.
* `OwnImage` assumes `Shows`: one goroutine calls the manager, images are overlay
  mounts, no creation is refused, and the VM restarts only as a whole. Writes may
  fail. `RootfsIsImage` speaks of live processes, the rootfs they run on was shown
  before they were there, and the preparation leaves alone whatever shows `bin/`;
  the invariant therefore says whose every shown image is: the container's or that
  of the operation under way (`ShowsOwn`), shown from the mount to the end of the
  process (`Mounted`), and none where a creation begins and a removal ends (`Bare`).
  A restart of the agent alone breaks it: a mount that outlives the agent before
  its container was committed is what the next create of the name, from another
  image, runs on.

**BridgeNetworkProofs.** `AddressesDistinct` strengthens distinctness by an
order: addresses in use were handed out at different counts, none more than a
pool's length ago. `PairsRemoved` holds whatever fails and whatever names
collide. `ShownReachable` carries, for each container whose cut name is its own,
the stage at which its pair is wired and its address shown. `NetworkTypes`
bounds the eight-bit counter. `AccessIsNetwork` carries these over to
`ContainerAccess`; `DialsReachOwner` adds that an address looked up and not yet
dialled still belongs to its pair's container, or to nobody, until the pool has
gone round.

**DaemonRpcProofs.** `AnswersMatch`: on a connection without a passed deadline
the holder of the mutex is the only request with a line under way, so that the
next line is its answer although no identifier is compared. The invariant counts
the lines in both queues and at the agent together. `RpcTypes` needs no
assumption. `AnswersStay` drops the condition on deadlines: its invariant `Homes`
says that every line in a connection's queues, and the one the agent executes,
was written to that connection, so that confusion about whose answer it is ends
with a reconnection. `LifeIsRelay` shows each step of `DaemonLife` to be one of
`DaemonRpc` or none, which gives `LifeAnswersMatch` and `LifeAnswersStay`;
`NoCommandCutOff` needs that a daemon that still waits has taken nothing.

**TunnelsProofs.** `ChannelsExclusive` with no assumption about order or time:
each channel is in one place (on its way, filed or bridged), filed under its
own port. `CalmPortsServeOwn` adds that on a calm port one client at a time
awaits a channel, and what is queued or filed is that client's;
`CalmPortsLoseNone` that a filed channel is never replaced, nor a bridge overwritten.

**ImageProofs.** Of the cache, `BasesComplete`: pulls write only unmarked directories
(`Merging`), a file under its final name is a whole layer (`FilesWhole`), markers
are put only on complete directories, and what is looked up or mounted is marked,
or built in and whole, or recorded as broken (`Backed`). `PulledIsMounted`, an
action property: after a pull the entry is the last pulled digest until a
restart, and an operation that mounts carries it. `ImageTypes` needs no
assumption.

Of the merge, `RootfsIsTree`, `LayerMerged` and `FailuresByKind`, for paths of any
depth and number, any layer and any rootfs; assumed is that a path's
directories are paths and that links point to none of them. `MergeInv` holds for
every layer: what has been walked comes before all that has not (`Ordered`), and
until the walk fails a node of the layer finds its directories made
(`ParentsMade`). The latter needs that a marker stands, in the order of the walk,
before all or after all of what it hides (`MarkerSide`), so that no directory
made by the walk is removed while something of it is still to come. `MergedSoFar`
speaks of layers that keep kinds and have their markers first: at each step the
rootfs has the layer's nodes that were walked, and of the old rootfs what no
walked marker hides. With the walk done this is `Merged`. Mid-walk, a node finds in
its place only what it may replace, since a hidden node is hidden by a marker that
comes before it (`HiddenBefore`, `Found`); hence such a layer cannot fail.

**PortListenersProofs.** `ListenersClosable` and `ForwardKept`. That the map
knows whoever accepts on a port (`PortInv`) needs that only one goroutine has the
port at a time and that none is started twice (`OnceInv`). That a listener is
closed only on its own container's behalf needs that a removal is counted before
it closes anything (`RmInv`). `ForwardNotLost`: each goroutine tries to listen once,
and one that gave up, and was not closed, was refused the port by the system or found it
with another goroutine (`GaveUp`); where no other container asks for the port, that is the
container's own.

**ShellSessionsProofs.** `TerminalsExclusive` with no assumption about order or
time: `StreamInv` says how far a session has come when its stream is queued,
filed or taken, and that what is filed was taken by nobody. `ShellsTracked` and
`ShellsOwn` add `CalmInv`: while sessions follow one another, only one is between
its request and its end, and the record and the filed stream are its.

**DisplayFramesProofs.** `NeverTorn`: what is read is whole until a write to it may have
begun (`ReadInv`). Only the back buffer is ever torn, and only while it is painted, and
the texture only while it is uploaded to, or after an upload that was late (`BackTorn`).
A read that no swap has followed is of the front buffer, so that a swap and the start of
a paint must come in between; one of the texture is written to by the next upload
alone. The passes at the GPU are two, as many as `MaxPasses` allows.
`NoSignalLost`: once nothing is written, buffered, queued or at the GPU, the last frame
that was signalled is shown, or a later one, unless the window's frame was read late, the
last draw had nothing to render to, or what the app cannot make good has happened
(`Excused`): the header's words in the other order, a resize message cut by a read, a
generator that starts anew. `SignalInv` keeps, for the last frame signalled, a
place where its signal, or a later one, is: among the bytes, in the main queue, with
the draw, or with the last pass (`LastShows`), where what is read late is excused and
what is not still has the frame (`Promise`).

Only model-checked: all liveness; of `SignalledIsShown`, the half that needs no fairness
is proved: `NoSignalLost` says that no signal has gone missing.
Every safety property that a passing run checks is a theorem, and so is every
module's type invariant. Liveness under fairness, ENABLED and induction over data are out of
the prover's reach; that is why `LayerMerged` follows the walk step by step and does
not speak of an image's layers in turn. No module declares a RECURSIVE operator.

## Not modelled

* logs, list, ping, info and the printing commands: they change no state;
* the mount table of `containerInit` but for its root: sequential, one process;
* the second daemon of a user who runs `aetheria run` twice: the paths, the disk
  and the sockets are the same, and each daemon removes the other's;
* HTTP, JSON and argument parsing; the values of limits, the enabling of the
  cgroup controllers and the NAT rules, whose errors the code only logs;
* crosvm and the kernel: submodules without contents here;
* a change of the window's or the frame's size, and a failure of Metal's set-up;
* lengths of lines, and what is cut at a buffer's end, outside the display.

## Plan

1. Which of two containers with one host port is forwarded to
   (`lookupPortForward`), with `PortListeners` and `BridgeNetwork` composed.
2. Agent restarts in `BridgeNetwork`; exec'd processes, which join no cgroup, and
   their lives beyond the container's.
3. A second daemon on the same paths: sockets, disk and VM (`DaemonLife` twice).
4. Lengths: lines over 64 KB between CLI and daemon, terminals' resize messages.
5. Proofs, in the modules that hold some already: abstract specifications of the
   network, the tunnels and the listeners, and that the modules implement them;
   `Durable` and the refinement for several callers on different names.
