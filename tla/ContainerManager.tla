-------------------------- MODULE ContainerManager --------------------------
(***************************************************************************)
(* The container manager of the guest agent (cmd/aetheria-agent/           *)
(* container.go): the map of containers, their lifecycle operations, the   *)
(* goroutines they leave behind, the configuration kept on disk, and the   *)
(* restarts of the VM and of the agent.                                    *)
(*                                                                         *)
(* One mutex guards the map and the Container structs; the slow parts of   *)
(* an operation run without it.  An action below is one critical section,  *)
(* or one effect outside the mutex, of the code.                           *)
(*                                                                         *)
(* A pid is used once: a boot of the VM starts far fewer processes than    *)
(* pid_max before the counter wraps.                                       *)
(***************************************************************************)
EXTENDS Naturals

CONSTANTS
    Names,          \* container names (all pass validateContainerName)
    Callers,        \* goroutines that call the manager; the agent has one
    Main,           \* the one that runs main(): it auto-restarts, then serves
    Objs,           \* addresses of Container structs
    Pids,           \* process ids
    Links,          \* names of network links
    LinkOf,         \* "veth-" and the container's name, cut to 15 characters
    Images,         \* names of images
    External,       \* source: an absolute rootfs path given by the request
    Existing,       \* source: neither an image nor a path given
    Params,         \* the parameters the create requests may carry
    NoObj, NoPid, NoConfig, NoName,
    Empty, Absent,  \* a rootfs directory without bin/, no rootfs directory
    OverlayFS,      \* the rootfs is an overlay mount (else a copy)
    DiskFaults,     \* saveConfig and RemoveAll may fail
    AgentRestarts,  \* the agent may restart while the VM stays up
    MaxRestarts     \* bound: restarts of the VM or of the agent

ASSUME NullAssumption ==
    /\ NoObj \notin Objs /\ NoPid \notin Pids /\ NoName \notin Names
    /\ NoConfig \notin Params
    /\ Images \cap {External, Existing, Empty, Absent} = {}
    /\ External # Existing /\ Empty # Absent

ASSUME ParamsAssumption ==
    /\ Main \in Callers /\ LinkOf \in [Names -> Links]
    /\ OverlayFS \in BOOLEAN /\ DiskFaults \in BOOLEAN
    /\ AgentRestarts \in BOOLEAN /\ MaxRestarts \in Nat
    /\ \A prm \in Params :
         /\ prm.src \in Images \cup {External, Existing}
         /\ prm.bridge \in BOOLEAN /\ prm.limits \in BOOLEAN
         /\ prm.restart \in STRING

VARIABLES
    containers, \* cm.containers: Names -> Objs \cup {NoObj}
    heap,       \* the Container structs
    procs,      \* container init processes: state, container name and struct
    waiter,     \* where the goroutine that waits for a process is
    killer,     \* the stages at which Stop's SIGKILL goroutines are
    termed,     \* processes that Stop sent SIGTERM
    killed,     \* processes that received SIGKILL
    veth,       \* the process whose veth pair bears the link's name
    wired,      \* the processes whose namespace received its end of a pair
    cgroup,     \* the names that have a cgroup
    limited,    \* the processes that were moved into that of their name
    disk,       \* containersDir/<name>: config.json and rootfs
    call,       \* the operation each caller is in
    serving,    \* NewContainerManager has returned
    toStart,    \* autoRestart's list
    wasRunning, \* the names whose container ran when the last restart hit
    restarts

goVars   == <<containers, heap, waiter, killer, call>>
procVars == <<procs, termed, killed, veth, wired, cgroup, limited>>
bootVars == <<serving, toStart, wasRunning, restarts>>
vars == <<containers, heap, procs, waiter, killer, termed, killed, veth,
          wired, cgroup, limited, disk, call, serving, toStart, wasRunning, restarts>>

Policies == {"no", "always"}
Free == [status |-> "free", name |-> NoName, params |-> NoConfig, pid |-> NoPid]
Idle == [pc |-> "idle", name |-> NoName, params |-> NoConfig, obj |-> NoObj,
         pid |-> NoPid]
NoProc == [st |-> "none", name |-> NoName, obj |-> NoObj]
NoDir  == [config |-> NoConfig, rootfs |-> Absent]

Structs == [status : {"free", "created", "running", "stopped"},
            name : Names \cup {NoName}, params : Params \cup {NoConfig},
            pid : Pids \cup {NoPid}]
Processes == [st : {"none", "alive", "zombie", "reaped"},
              name : Names \cup {NoName}, obj : Objs \cup {NoObj}]
Directories == [config : Params \cup {NoConfig},
                rootfs : Images \cup {Empty, Absent}]
Calls == [pc : {"idle", "createPrep", "createCommit", "startMount", "startLaunch",
                "stopSignal", "removeUnmount", "removeFiles"},
          name : Names \cup {NoName}, params : Params \cup {NoConfig},
          obj : Objs \cup {NoObj}, pid : Pids \cup {NoPid}]

TypeOK ==
    /\ containers \in [Names -> Objs \cup {NoObj}]
    /\ heap \in [Objs -> Structs]
    /\ procs \in [Pids -> Processes]
    /\ waiter \in [Pids -> {"none", "wait", "teardown", "cleanup", "publish"}]
    /\ killer \in [Pids -> SUBSET {"sleep", "kill"}]
    /\ termed \subseteq Pids /\ killed \subseteq Pids
    /\ veth \in [Links -> Pids \cup {NoPid}] /\ wired \subseteq Pids
    /\ cgroup \subseteq Names /\ limited \subseteq Pids
    /\ disk \in [Names -> Directories]
    /\ call \in [Callers -> Calls]
    /\ serving \in BOOLEAN /\ toStart \subseteq Names
    /\ wasRunning \subseteq Names /\ restarts \in 0..MaxRestarts

Init ==
    /\ containers = [n \in Names |-> NoObj]
    /\ heap = [o \in Objs |-> Free]
    /\ procs = [p \in Pids |-> NoProc]
    /\ waiter = [p \in Pids |-> "none"]
    /\ killer = [p \in Pids |-> {}]
    /\ termed = {} /\ killed = {}
    /\ veth = [l \in Links |-> NoPid] /\ wired = {}
    /\ cgroup = {} /\ limited = {}
    /\ disk = [n \in Names |-> NoDir]
    /\ call = [c \in Callers |-> Idle]
    /\ serving = FALSE
    /\ toStart = {} /\ wasRunning = {}
    /\ restarts = 0

-----------------------------------------------------------------------------
(* Guards, each named for the check of the code that it is.                *)

Exists(n)  == containers[n] # NoObj
Running(o) == heap[o].status = "running"
Alive(p)   == procs[p].st = "alive"

\* Is there an image's bin/ in the rootfs?  (mutant: is there a rootfs?)
HasRootfs(n) == disk[n].rootfs # Absent
HasBin(n) == disk[n].rootfs \in Images

\* Start's second look, after the mutex was released for the remount.
StartMayLaunchStale(c) == containers[call[c].name] = call[c].obj
StartMayLaunch(c) ==
    /\ containers[call[c].name] = call[c].obj
    /\ ~Running(call[c].obj)

\* Whom Stop's goroutine kills when its five seconds are over: the process
\* it was made for, if the container still runs it.
KillTargetsAny(p) ==
    LET o == procs[p].obj IN IF Running(o) THEN {heap[o].pid} ELSE {}
KillTargetsGone(p) ==
    LET o == procs[p].obj IN IF Running(o) /\ heap[o].pid = p THEN {} ELSE {p}
KillTargets(p) ==
    LET o == procs[p].obj IN IF Running(o) /\ heap[o].pid = p THEN {p} ELSE {}

\* The order in which the goroutine that waits for a process cleans up.
AfterEarly == [wait |-> "publish", publish |-> "teardown",
               teardown |-> "cleanup", cleanup |-> "none"]
AfterStuck == [wait |-> "teardown", teardown |-> "cleanup",
               cleanup |-> "publish", publish |-> "stuck"]
After == [wait |-> "teardown", teardown |-> "cleanup",
          cleanup |-> "publish", publish |-> "none"]

\* What loadConfigs restores: a directory with a configuration and a rootfs.
Restorable(dir) == dir.config # NoConfig /\ dir.rootfs # Absent

\* autoRestart's selection; loadConfigs left every status "stopped".
WantsRestart(dir) == Restorable(dir) /\ dir.config.restart = "always"

\* Nothing refers to the struct at address o: the runtime may hand it out.
Garbage(o) ==
    /\ \A n \in Names : containers[n] # o
    /\ \A c \in Callers : call[c].obj # o
    /\ \A p \in Pids : procs[p].obj = o => waiter[p] = "none" /\ killer[p] = {}

\* A caller may start an operation once main() serves.
Ready(c) == serving /\ call[c] = Idle

\* A caller returns to its loop.
Return(c) == call' = [call EXCEPT ![c] = Idle]
Goto(c, where) == call' = [call EXCEPT ![c].pc = where]

\* PrepareContainerRootfs: leaves a rootfs that shows bin/ alone, otherwise
\* mounts (or copies) image img.
Prepared(n, img) ==
    disk' = [disk EXCEPT ![n].rootfs = IF HasBin(n) THEN @ ELSE img]

\* It fails before its first MkdirAll (the pull) or after it (the copy).
PrepareFailed(n) ==
    /\ ~HasBin(n)
    /\ \/ UNCHANGED disk
       \/ ~OverlayFS /\ disk' = [disk EXCEPT ![n].rootfs = Empty]

-----------------------------------------------------------------------------
(* Create.                                                                 *)

CreateCheck(c, n, prm) ==
    /\ Ready(c) /\ ~Exists(n)
    /\ call' = [call EXCEPT ![c] =
                  [Idle EXCEPT !.pc = "createPrep", !.name = n, !.params = prm]]
    /\ UNCHANGED <<containers, heap, waiter, killer, disk, procVars, bootVars>>

CreatePrep(c) ==
    LET n == call[c].name
        src == call[c].params.src
    IN  /\ call[c].pc = "createPrep"
        /\ \/ src \in Images /\ Prepared(n, src) /\ Goto(c, "createCommit")
           \/ src \in Images /\ PrepareFailed(n) /\ Return(c)
           \/ src = External /\ Goto(c, "createCommit") /\ UNCHANGED disk
           \/ /\ src = Existing /\ UNCHANGED disk
              /\ IF disk[n].rootfs = Absent THEN Return(c)
                                            ELSE Goto(c, "createCommit")
        /\ UNCHANGED <<containers, heap, waiter, killer, procVars, bootVars>>

\* saveConfig, whose errors are only logged.
NotSaved(n, prm) == UNCHANGED disk
SavedConfig(n, prm) ==
    \/ disk' = [disk EXCEPT ![n].config = prm]
    \/ DiskFaults /\ UNCHANGED disk

CreateCommit(c) ==
    LET n == call[c].name
        prm == call[c].params
    IN  /\ call[c].pc = "createCommit"
        /\ \/ /\ ~Exists(n) /\ prm.restart \in Policies
              /\ \E o \in Objs :
                   /\ Garbage(o)
                   /\ heap' = [heap EXCEPT ![o] =
                                 [status |-> "created", name |-> n,
                                  params |-> prm, pid |-> NoPid]]
                   /\ containers' = [containers EXCEPT ![n] = o]
              /\ SavedConfig(n, prm)
           \/ /\ Exists(n) \/ prm.restart \notin Policies
              /\ UNCHANGED <<containers, heap, disk>>
        /\ Return(c)
        /\ UNCHANGED <<waiter, killer, procVars, bootVars>>

-----------------------------------------------------------------------------
(* Start, called by a request or by autoRestart.                           *)

StartCheck(c, n) ==
    /\ Exists(n) /\ ~Running(containers[n])
    /\ call' = [call EXCEPT ![c] = [Idle EXCEPT
                  !.pc = "startMount", !.name = n, !.obj = containers[n]]]

Start(c, n) ==
    /\ Ready(c) /\ StartCheck(c, n)
    /\ UNCHANGED <<containers, heap, waiter, killer, disk, procVars, bootVars>>

StartMount(c) ==
    LET n == call[c].name
        src == heap[call[c].obj].params.src
    IN  /\ call[c].pc = "startMount"
        /\ \/ src \in Images /\ Prepared(n, src) /\ Goto(c, "startLaunch")
           \/ src \in Images /\ PrepareFailed(n) /\ Return(c)
           \/ src \notin Images /\ Goto(c, "startLaunch") /\ UNCHANGED disk
        /\ UNCHANGED <<containers, heap, waiter, killer, procVars, bootVars>>

\* MkdirAll of proc/, sys/, ... creates the rootfs directory if need be.
RootfsTouched(o, n) ==
    disk' = [disk EXCEPT ![n].rootfs =
               IF @ = Absent /\ heap[o].params.src # External THEN Empty ELSE @]

\* setupCgroup, whose errors are only logged: the directory, then the limits, which
\* the kernel may refuse, then the process.
SetupCgroup(o, n, p) ==
    \/ ~heap[o].params.limits /\ UNCHANGED <<cgroup, limited>>
    \/ /\ heap[o].params.limits
       /\ \/ UNCHANGED <<cgroup, limited>>
          \/ cgroup' = cgroup \cup {n} /\ limited' \in {limited, limited \cup {p}}

\* setupBridgeNetwork, whose errors are only logged.  "ip link add" fails if
\* the link's name is taken; any command may fail, before the pair is there,
\* before its other end is in the namespace, or after.
SetupNetwork(o, n, p) ==
    \/ UNCHANGED <<veth, wired>>
    \/ /\ heap[o].params.bridge /\ veth[LinkOf[n]] = NoPid
       /\ veth' = [veth EXCEPT ![LinkOf[n]] = p]
       /\ wired' \in {wired, wired \cup {p}}

\* cmd.Start succeeds: the process, its status, its cgroup and its network
\* are set up under the mutex and the waiting goroutine is launched.
Launch(o, n, p) ==
    /\ procs[p].st = "none"
    /\ procs' = [procs EXCEPT ![p] = [st |-> "alive", name |-> n, obj |-> o]]
    /\ heap' = [heap EXCEPT ![o].status = "running", ![o].pid = p]
    /\ SetupCgroup(o, n, p)
    /\ SetupNetwork(o, n, p)
    /\ waiter' = [waiter EXCEPT ![p] = "wait"]

StartLaunch(c) ==
    LET n == call[c].name
        o == call[c].obj
    IN  /\ call[c].pc = "startLaunch"
        /\ \/ StartMayLaunch(c) /\ RootfsTouched(o, n) /\ \E p \in Pids : Launch(o, n, p)
           \/ /\ StartMayLaunch(c) /\ RootfsTouched(o, n)  \* cmd.Start fails
              /\ UNCHANGED <<procs, heap, cgroup, limited, veth, wired, waiter>>
           \/ /\ ~StartMayLaunch(c)
              /\ UNCHANGED <<disk, procs, heap, cgroup, limited, veth, wired, waiter>>
        /\ Return(c)
        /\ UNCHANGED <<containers, killer, termed, killed, bootVars>>

-----------------------------------------------------------------------------
(* Stop, and the goroutine that follows SIGTERM with SIGKILL.              *)

StopCheck(c, n) ==
    /\ Ready(c) /\ Exists(n) /\ Running(containers[n])
    /\ call' = [call EXCEPT ![c] = [Idle EXCEPT
                  !.pc = "stopSignal", !.name = n, !.obj = containers[n],
                  !.pid = heap[containers[n]].pid]]
    /\ UNCHANGED <<containers, heap, waiter, killer, disk, procVars, bootVars>>

StopSignal(c) ==
    LET p == call[c].pid
    IN  /\ call[c].pc = "stopSignal"
        /\ termed' = termed \cup {p}
        /\ killer' = [killer EXCEPT ![p] = @ \cup {"sleep"}]
        /\ Return(c)
        /\ UNCHANGED <<containers, heap, procs, waiter, killed, veth, wired,
                       cgroup, limited, disk, bootVars>>

\* A process ends; with its network namespace the kernel deletes the pair that
\* has an end there.
Dies(p) ==
    /\ procs' = [procs EXCEPT ![p].st = "zombie"]
    /\ veth' = [l \in Links |-> IF veth[l] = p /\ p \in wired THEN NoPid ELSE veth[l]]
    /\ wired' = wired \ {p}

KillerCheck(p) ==
    /\ "sleep" \in killer[p]
    /\ killer' = [q \in Pids |->
          (killer[q] \ IF q = p THEN {"sleep"} ELSE {})
              \cup IF q \in KillTargets(p) THEN {"kill"} ELSE {}]
    /\ UNCHANGED <<containers, heap, waiter, call, disk, procVars, bootVars>>

KillerKill(p) ==
    /\ "kill" \in killer[p]
    /\ killer' = [killer EXCEPT ![p] = @ \ {"kill"}]
    /\ killed' = killed \cup {p}
    /\ IF Alive(p) THEN Dies(p) ELSE UNCHANGED <<procs, veth, wired>>
    /\ UNCHANGED <<containers, heap, waiter, call, termed, cgroup, limited, disk, bootVars>>

-----------------------------------------------------------------------------
(* Remove: out of the map under the mutex, off the disk without it.        *)

MayRemoveAny(n) == Exists(n)
MayRemove(n) == Exists(n) /\ ~Running(containers[n])

RemoveCheck(c, n) ==
    /\ Ready(c) /\ MayRemove(n)
    /\ containers' = [containers EXCEPT ![n] = NoObj]
    /\ call' = [call EXCEPT ![c] = [Idle EXCEPT !.pc = "removeUnmount", !.name = n]]
    /\ UNCHANGED <<heap, waiter, killer, disk, procVars, bootVars>>

\* The overlay unmounted, the directory below it shows no bin/.
Unmounted(r) == IF OverlayFS /\ r \in Images THEN Empty ELSE r

RemoveUnmount(c) ==
    /\ call[c].pc = "removeUnmount"
    /\ disk' = [disk EXCEPT ![call[c].name].rootfs = Unmounted(@)]
    /\ Goto(c, "removeFiles")
    /\ UNCHANGED <<containers, heap, waiter, killer, procVars, bootVars>>

\* RemoveAll deletes config.json and rootfs/ in the directory's order.
RemovePart(c) ==
    LET n == call[c].name
    IN  /\ call[c].pc = "removeFiles" /\ disk[n] # NoDir
        /\ \/ disk' = [disk EXCEPT ![n].config = NoConfig]
           \/ disk' = [disk EXCEPT ![n].rootfs = Absent]
        /\ UNCHANGED <<goVars, procVars, bootVars>>

\* RemoveAll returns; its error is only logged.
NotDeleted(n) == TRUE
Deleted(n) == disk[n] = NoDir \/ DiskFaults

RemoveReturn(c) ==
    /\ call[c].pc = "removeFiles" /\ Deleted(call[c].name)
    /\ Return(c)
    /\ UNCHANGED <<containers, heap, waiter, killer, disk, procVars, bootVars>>

-----------------------------------------------------------------------------
(* The life of a container's process and of the goroutine waiting for it.  *)

\* containerInit returns on SIGTERM, or the process dies of its own.
Exit(p) ==
    /\ Alive(p) /\ Dies(p)
    /\ UNCHANGED <<goVars, termed, killed, cgroup, limited, disk, bootVars>>

\* cmd.Wait returns.
WaiterReap(p) ==
    /\ waiter[p] = "wait" /\ procs[p].st = "zombie"
    /\ procs' = [procs EXCEPT ![p].st = "reaped"]
    /\ waiter' = [waiter EXCEPT ![p] = After[@]]
    /\ UNCHANGED <<containers, heap, killer, call, termed, killed, veth, wired,
                   cgroup, limited, disk, bootVars>>

\* teardownBridgeNetwork deletes whatever link bears the cut name.
WaiterTeardown(p) ==
    /\ waiter[p] = "teardown"
    /\ veth' = [veth EXCEPT ![LinkOf[procs[p].name]] =
                  IF heap[procs[p].obj].params.bridge THEN NoPid ELSE @]
    /\ waiter' = [waiter EXCEPT ![p] = After[@]]
    /\ UNCHANGED <<containers, heap, killer, call, procs, termed, killed, wired,
                   cgroup, limited, disk, bootVars>>

\* cleanupCgroup keeps a cgroup that still has a process in it.
CgroupEmpty(n) == \A p \in limited : procs[p].name = n => ~Alive(p)

\* It is called for a container with limits, whether they were set or not.
WasLimited(p) == p \in limited
HasLimits(p) == heap[procs[p].obj].params.limits

WaiterCleanup(p) ==
    LET n == procs[p].name
    IN  /\ waiter[p] = "cleanup"
        /\ cgroup' = IF HasLimits(p) /\ CgroupEmpty(n) THEN cgroup \ {n} ELSE cgroup
        /\ limited' = limited \ {p}  \* a reaped process is in none
        /\ waiter' = [waiter EXCEPT ![p] = After[@]]
        /\ UNCHANGED <<containers, heap, killer, call, procs, termed, killed,
                       veth, wired, disk, bootVars>>

WaiterPublish(p) ==
    /\ waiter[p] = "publish"
    /\ heap' = [heap EXCEPT ![procs[p].obj].status = "stopped",
                            ![procs[p].obj].pid = NoPid]
    /\ waiter' = [waiter EXCEPT ![p] = After[@]]
    /\ UNCHANGED <<containers, killer, call, procVars, disk, bootVars>>

-----------------------------------------------------------------------------
(* Restarts, and the start of the agent.                                   *)

\* NewContainerManager up to autoRestart's loop, on the directories d.
Loaded(d) ==
    LET found == {n \in Names : Restorable(d[n])}
    IN  /\ \E f \in [found -> Objs] :
             /\ \A m, n \in found : f[m] = f[n] => m = n
             /\ containers' = [n \in Names |-> IF n \in found THEN f[n] ELSE NoObj]
             /\ heap' = [o \in Objs |->
                  IF \E n \in found : f[n] = o
                  THEN LET n == CHOOSE m \in found : f[m] = o
                       IN  [status |-> "stopped", name |-> n,
                            params |-> d[n].config, pid |-> NoPid]
                  ELSE Free]
        /\ disk' = d
        /\ toStart' = {n \in found : WantsRestart(d[n])}
        /\ wasRunning' = {n \in Names : Exists(n) /\ Running(containers[n])}
        /\ waiter' = [p \in Pids |-> "none"]
        /\ killer' = [p \in Pids |-> {}]
        /\ call' = [c \in Callers |-> Idle]
        /\ serving' = FALSE

\* The VM goes down and comes up: processes, links, cgroups, mounts are gone.
VmRestart ==
    /\ restarts < MaxRestarts /\ restarts' = restarts + 1
    /\ Loaded([n \in Names |-> [disk[n] EXCEPT !.rootfs = Unmounted(@)]])
    /\ procs' = [p \in Pids |-> NoProc]
    /\ termed' = {} /\ killed' = {}
    /\ veth' = [l \in Links |-> NoPid] /\ wired' = {}
    /\ cgroup' = {} /\ limited' = {}

\* The agent alone restarts: the containers' processes live on, as orphans.
AgentRestart ==
    /\ AgentRestarts
    /\ restarts < MaxRestarts /\ restarts' = restarts + 1
    /\ Loaded(disk)
    /\ procs' = [p \in Pids |-> [procs[p] EXCEPT
                    !.st = IF @ = "zombie" THEN "reaped" ELSE @, !.obj = NoObj]]
    /\ UNCHANGED <<termed, killed, veth, wired, cgroup, limited>>

\* autoRestart's loop, on the goroutine of main().
AutoStart(n) ==
    /\ ~serving /\ call[Main] = Idle
    /\ n \in toStart /\ toStart' = toStart \ {n}
    /\ StartCheck(Main, n)
    /\ UNCHANGED <<containers, heap, waiter, killer, disk, procVars, serving,
                   wasRunning, restarts>>

\* main() enters its connection loop.
Serve ==
    /\ ~serving /\ call[Main] = Idle /\ toStart = {}
    /\ serving' = TRUE /\ wasRunning' = {}
    /\ UNCHANGED <<goVars, procVars, disk, toStart, restarts>>

-----------------------------------------------------------------------------
\* The steps of a caller inside an operation.
Continue(c) ==
    \/ CreatePrep(c) \/ CreateCommit(c)
    \/ StartMount(c) \/ StartLaunch(c) \/ StopSignal(c)
    \/ RemoveUnmount(c) \/ RemovePart(c) \/ RemoveReturn(c)

Request(c, n) ==
    \/ \E prm \in Params : CreateCheck(c, n, prm)
    \/ Start(c, n) \/ StopCheck(c, n) \/ RemoveCheck(c, n)

Waiter(p) ==
    WaiterReap(p) \/ WaiterTeardown(p) \/ WaiterCleanup(p) \/ WaiterPublish(p)

Killer(p) == KillerCheck(p) \/ KillerKill(p)

Boot == Serve \/ \E n \in Names : AutoStart(n)

Next ==
    \/ \E c \in Callers : Continue(c) \/ \E n \in Names : Request(c, n)
    \/ \E p \in Pids : Waiter(p) \/ Killer(p) \/ Exit(p)
    \/ Boot \/ VmRestart \/ AgentRestart

Spec == Init /\ [][Next]_vars

\* The goroutines run; requests, exits and restarts need not happen.
Fairness ==
    /\ \A c \in Callers : WF_vars(Continue(c))
    /\ \A p \in Pids :
         WF_vars(Waiter(p)) /\ WF_vars(KillerCheck(p)) /\ WF_vars(KillerKill(p))
    /\ WF_vars(Boot)

FairSpec == Spec /\ Fairness

-----------------------------------------------------------------------------
(* Properties.                                                             *)

\* A process of the name is from before a restart of the agent alone: nobody
\* waits for it, and what it leaves behind is nobody's to clean up.
Inherited(n) ==
    \E q \in Pids :
        procs[q].st # "none" /\ procs[q].name = n /\ procs[q].obj = NoObj

\* Every live process the agent started is the one its container, reachable in
\* the map, says is running (container.go:452-453, 497-500, 539-547): List, Stop
\* and Remove never lose sight of a process, whatever the interleaving, the
\* restarts and the disk errors.
LiveTracked ==
    \A p \in Pids : Alive(p) /\ procs[p].obj # NoObj =>
        /\ Exists(procs[p].name)
        /\ heap[containers[procs[p].name]].status = "running"
        /\ heap[containers[procs[p].name]].pid = p

\* The agent never runs two incarnations of one container at once, on one rootfs.
OneProcessPerName ==
    \A p, q \in Pids :
        (/\ Alive(p) /\ procs[p].obj # NoObj
         /\ Alive(q) /\ procs[q].obj # NoObj
         /\ procs[p].name = procs[q].name) => p = q

\* A container that says it is running has exactly one goroutine that will say
\* it stopped, the one for the process it names, and a container that does not
\* has none: no status stays "running" for ever, none is reset under a newer
\* incarnation (452-454, 480-500).
RunningHasWaiter ==
    \A o \in Objs :
        {p \in Pids : waiter[p] # "none" /\ procs[p].obj = o}
            = IF Running(o) THEN {heap[o].pid} ELSE {}

\* SIGKILL reaches only an incarnation that Stop was asked to end, also when
\* the container is started again inside the five seconds (523-532).
KillsOnlyStopped == killed \subseteq termed

\* No other container's name is cut to the same link.
NamedAlone(n) == \A m \in Names : LinkOf[m] = LinkOf[n] => m = n

\* The network a container was given stays while it lives: once its end of the
\* pair is in its namespace (network.go:147-150), no goroutine of an earlier
\* incarnation of the name (486-488 before 493), no set-up that fails and no
\* process that outlived its agent takes the link away.
LiveKeepsNetwork ==
    \A p \in wired : procs[p].obj # NoObj /\ NamedAlone(procs[p].name)
        => veth[LinkOf[procs[p].name]] = p

\* Neither link nor cgroup outlives the last incarnation of a name, also when
\* the set-up of either stopped half-way, unless the agent that should have
\* removed them is gone (463-475, 486-491, network.go:129-150, cgroup.go:84-119).
NothingLeaks ==
    \A n \in Names :
        ~Inherited(n) /\ (\A p \in Pids : procs[p].name = n => waiter[p] = "none")
            => /\ \A p \in Pids : veth[LinkOf[n]] = p => procs[p].name # n
               /\ n \notin cgroup

\* A container the map holds is one loadConfigs would restore, with the same
\* parameters: "survives VM restart" (README.md:32).
Durable ==
    \A n \in Names : Exists(n) =>
        Restorable(disk[n]) /\ disk[n].config = heap[containers[n]].params

\* What loadConfigs would restore is in the map, or an operation on the name is
\* under way: no container whose removal was answered comes back.
NoGhosts ==
    \A n \in Names : Restorable(disk[n]) =>
        Exists(n) \/ \E c \in Callers : call[c].name = n

\* A running container sees the rootfs of the image it was created from.
RootfsIsImage ==
    \A p \in Pids : Alive(p) /\ heap[procs[p].obj].params.src \in Images
        => disk[procs[p].name].rootfs = heap[procs[p].obj].params.src

\* What the plan of container persistence says of autoRestart: it starts the
\* containers that were running when the VM died.
AutoRestartsOnlyRunning == toStart \subseteq wasRunning

\* Stop is final for the incarnation it was accepted for: SIGTERM, and SIGKILL
\* if that was ignored.
StopTakesEffect ==
    \A p \in Pids : p \in termed ~> ~Alive(p)

\* The end of a process is published: the container can be started, or
\* removed, again.
ExitIsPublished ==
    \A p \in Pids : procs[p].st = "zombie" ~> waiter[p] = "none"

\* What the manager promises, as an abstract specification.
Service == INSTANCE ContainerService WITH
    status    <- [n \in Names |-> IF Exists(n) THEN heap[containers[n]].status
                                             ELSE "absent"],
    unsettled <- {n \in Names : ~Exists(n) /\ disk[n].config # NoConfig}

\* Every behaviour of the manager, restarts of the VM included, is one of the
\* abstract service: no container is lost or invented.
ImplementsService == Service!Spec
=============================================================================
