----------------------- MODULE ContainerManagerProofs -----------------------
(***************************************************************************)
(* Proofs about ContainerManager, for every value of its constants.  The   *)
(* properties LiveTracked, RunningHasWaiter, ... are not inductive: that   *)
(* Start may launch, for instance, rests on who else can hold the struct.  *)
(* IInv adds what links the map, the structs, the processes, their waiting *)
(* goroutines and the operations under way.                                *)
(*                                                                         *)
(* What is on the disk needs more of the agent's surroundings: Clears for  *)
(* removal, Saves for what is acknowledged and for the refinement of       *)
(* ContainerService, Shows for the rootfs of a running container.          *)
(***************************************************************************)
EXTENDS ContainerManager, TLAPS

\* The map files every struct under its own name.
MapInv == \A n \in Names : Exists(n) => heap[containers[n]].name = n

\* A struct that runs is in the map and names a process that a goroutine
\* waits for.
RunInv ==
    \A o \in Objs : Running(o) =>
        /\ heap[o].name \in Names /\ containers[heap[o].name] = o
        /\ heap[o].pid \in Pids /\ procs[heap[o].pid].obj = o
        /\ waiter[heap[o].pid] # "none"

\* A waiting goroutine belongs to the incarnation its struct shows.
WaitInv ==
    \A p \in Pids : waiter[p] # "none" =>
        /\ procs[p].obj \in Objs /\ Running(procs[p].obj)
        /\ heap[procs[p].obj].pid = p
        /\ procs[p].name = heap[procs[p].obj].name
        /\ procs[p].st # "none"
        /\ waiter[p] # "wait" => procs[p].st = "reaped"

\* A child process is waited for; an unused pid has no waiter.
ProcInv ==
    \A p \in Pids :
        procs[p].st \in {"alive", "zombie"} /\ procs[p].obj \in Objs
            => waiter[p] = "wait"

\* What an operation remembers across the mutex.
CallInv ==
    \A c \in Callers :
        /\ call[c].pc \in {"startMount", "startLaunch"} =>
              /\ call[c].obj \in Objs
              /\ heap[call[c].obj].name = call[c].name
        /\ call[c].pc = "stopSignal" => call[c].pid \in Pids
        /\ call[c].pc # "idle" => call[c].name \in Names

\* SIGKILL is prepared, and sent, only after SIGTERM.
KillInv ==
    /\ \A p \in Pids : killer[p] # {} => p \in termed
    /\ killed \subseteq termed

\* A link bears the cut name of its process's container, and a goroutine will
\* delete it unless its agent is gone.  A process in whose namespace there is an
\* end of a pair lives.
VethInv ==
    /\ \A l \in Links : veth[l] # NoPid =>
         /\ procs[veth[l]].st # "none" /\ procs[veth[l]].name \in Names
         /\ LinkOf[procs[veth[l]].name] = l
         /\ procs[veth[l]].obj # NoObj =>
              /\ waiter[veth[l]] \in {"wait", "teardown"}
              /\ heap[procs[veth[l]].obj].params.bridge
    /\ \A p \in wired : Alive(p) /\ procs[p].name \in Names

\* A cgroup has a goroutine that will remove it, or an heir.
CgroupInv ==
    \A n \in cgroup : Inherited(n) \/ \E p \in Pids :
        /\ procs[p].name = n /\ HasLimits(p)
        /\ waiter[p] \in {"wait", "teardown", "cleanup"}

IInv == /\ TypeOK /\ MapInv /\ RunInv /\ WaitInv /\ ProcInv /\ CallInv
        /\ KillInv /\ VethInv /\ CgroupInv /\ LiveKeepsNetwork

-----------------------------------------------------------------------------
LEMMA IdleType == Idle \in Calls
  BY DEF Idle, Calls

LEMMA GotoType ==
  ASSUME call \in [Callers -> Calls], NEW c, NEW pc,
         pc \in {"createCommit", "startLaunch", "removeFiles"}, Goto(c, pc)
  PROVE  call' \in [Callers -> Calls]
<1>1. ASSUME NEW d \in Callers PROVE [call[d] EXCEPT !.pc = pc] \in Calls
  BY DEF Calls
<1> QED
  BY <1>1 DEF Goto

LEMMA PreparedType ==
  ASSUME TypeOK, NEW n, NEW img \in Images, Prepared(n, img) \/ PrepareFailed(n)
  PROVE  disk' \in [Names -> Directories]
<1>1. disk \in [Names -> Directories]
  BY DEF TypeOK
<1>2. UNCHANGED disk \/ \E r \in Images \cup {Empty} : disk' = [disk EXCEPT ![n].rootfs = r]
  <2>1. CASE Prepared(n, img)
    <3>1. [disk EXCEPT ![n].rootfs = disk[n].rootfs] = disk
      BY <1>1 DEF Directories
    <3> QED
      BY <2>1, <3>1 DEF Prepared
  <2>2. CASE PrepareFailed(n)
    BY <2>2 DEF PrepareFailed
  <2> QED
    BY <2>1, <2>2
<1>3. ASSUME NEW r \in Images \cup {Empty}, disk' = [disk EXCEPT ![n].rootfs = r]
      PROVE  disk' \in [Names -> Directories]
  BY <1>1, <1>3 DEF Directories
<1> QED
  BY <1>1, <1>2, <1>3

LEMMA RootfsType ==
  ASSUME disk \in [Names -> Directories], NEW n, NEW r \in Images \cup {Empty, Absent},
         disk' = [disk EXCEPT ![n].rootfs = r]
  PROVE  disk' \in [Names -> Directories]
  BY DEF Directories

LEMMA SavedType ==
  ASSUME TypeOK, NEW n, NEW prm \in Params \cup {NoConfig}, SavedConfig(n, prm)
  PROVE  disk' \in [Names -> Directories]
  BY DEF TypeOK, Directories, SavedConfig

LEMMA InitInv == Init => IInv
<1> SUFFICES ASSUME Init PROVE IInv
  OBVIOUS
<1> USE DEF Init, Free, Idle, NoProc, NoDir
<1>1. TypeOK
  <2>1. heap \in [Objs -> Structs] /\ procs \in [Pids -> Processes]
    BY DEF Structs, Processes
  <2>2. disk \in [Names -> Directories] /\ call \in [Callers -> Calls]
    BY IdleType DEF Directories
  <2>3. restarts \in 0..MaxRestarts
    BY ParamsAssumption
  <2> QED
    BY <2>1, <2>2, <2>3 DEF TypeOK
<1>2. MapInv /\ RunInv /\ WaitInv /\ ProcInv
  BY NullAssumption DEF MapInv, RunInv, WaitInv, ProcInv, Exists, Running
<1>3. CallInv /\ KillInv /\ VethInv /\ CgroupInv /\ LiveKeepsNetwork
  BY NullAssumption DEF CallInv, KillInv, VethInv, CgroupInv, LiveKeepsNetwork, NamedAlone, Inherited, Alive
<1> QED
  BY <1>1, <1>2, <1>3 DEF IInv

LEMMA CreateCheckInv ==
  ASSUME IInv, NEW c \in Callers, NEW n \in Names, NEW prm \in Params,
         CreateCheck(c, n, prm)
  PROVE  IInv'
<1> USE DEF IInv, CreateCheck, Ready, Idle, procVars, bootVars
<1>1. call' \in [Callers -> Calls]
  BY DEF TypeOK, Calls
<1>2. TypeOK'
  BY <1>1 DEF TypeOK
<1>3. CallInv'
  BY <1>1 DEF CallInv, TypeOK
<1>4. MapInv' /\ RunInv' /\ WaitInv' /\ ProcInv'
  BY DEF MapInv, RunInv, WaitInv, ProcInv, Exists, Running
<1>5. KillInv' /\ VethInv' /\ CgroupInv' /\ LiveKeepsNetwork'
  BY DEF KillInv, VethInv, CgroupInv, HasLimits, LiveKeepsNetwork, NamedAlone, Inherited, Alive
<1> QED
  BY <1>2, <1>3, <1>4, <1>5

LEMMA CreatePrepInv ==
  ASSUME IInv, NEW c \in Callers, CreatePrep(c)
  PROVE  IInv'
<1> USE DEF IInv, CreatePrep, Return, procVars,
   bootVars
<1>1. call' \in [Callers -> Calls]
  BY IdleType, GotoType DEF TypeOK
<1>2. disk' \in [Names -> Directories]
  BY PreparedType DEF TypeOK
<1>3. TypeOK'
  BY <1>1, <1>2 DEF TypeOK
<1>4. CallInv'
  <2>1. /\ \A d \in Callers : d # c => call'[d] = call[d]
        /\ call'[c].pc \in {"createCommit", "idle"}
        /\ call'[c].pc # "idle" => call'[c].name = call[c].name
    BY DEF TypeOK, Calls, Goto, Idle
  <2> QED
    BY <2>1 DEF CallInv
<1>5. MapInv' /\ RunInv' /\ WaitInv' /\ ProcInv'
  BY DEF MapInv, RunInv, WaitInv, ProcInv, Exists, Running
<1>6. KillInv' /\ VethInv' /\ CgroupInv' /\ LiveKeepsNetwork'
  BY DEF KillInv, VethInv, CgroupInv, HasLimits, LiveKeepsNetwork, NamedAlone, Inherited, Alive
<1> QED
  BY <1>3, <1>4, <1>5, <1>6

LEMMA CreateCommitInv ==
  ASSUME IInv, NEW c \in Callers, CreateCommit(c)
  PROVE  IInv'
<1> USE DEF IInv, CreateCommit, Return, procVars, bootVars
<1>1. call' \in [Callers -> Calls]
  BY IdleType DEF TypeOK
<1>2. call[c].params \in Params \cup {NoConfig}
  BY DEF TypeOK, Calls
<1>3. disk' \in [Names -> Directories]
  BY <1>2, SavedType DEF TypeOK
<1>4. heap' \in [Objs -> Structs] /\ containers' \in [Names -> Objs \cup {NoObj}]
  BY DEF TypeOK, Structs, Calls
<1>5. TypeOK'
  BY <1>1, <1>2, <1>3, <1>4 DEF TypeOK
<1>6. MapInv'
  BY DEF MapInv, Exists, Garbage, CallInv, TypeOK
<1>7. RunInv'
  BY NullAssumption DEF RunInv, Running, Exists, Garbage, CallInv, TypeOK
<1>8. WaitInv'
  BY DEF WaitInv, Running, Garbage, TypeOK
<1>9. ProcInv'
  BY DEF ProcInv
<1>10. CallInv'
  BY DEF CallInv, Garbage, TypeOK, Idle
<1>11. KillInv' /\ LiveKeepsNetwork'
  BY DEF KillInv, LiveKeepsNetwork
<1>12. VethInv'
  <2>1. \A p \in Pids : waiter[p] # "none" =>
          procs[p].obj \in Objs /\ heap'[procs[p].obj] = heap[procs[p].obj]
    BY DEF WaitInv, Garbage, TypeOK
  <2> QED
    BY <2>1 DEF VethInv, Alive, TypeOK
<1>13. CgroupInv'
  BY DEF CgroupInv, Inherited, HasLimits, WaitInv, Garbage, TypeOK
<1> QED
  BY <1>5, <1>6, <1>7, <1>8, <1>9, <1>10, <1>11, <1>12, <1>13

LEMMA StartCheckInv ==
  ASSUME IInv, NEW c \in Callers, NEW n \in Names, StartCheck(c, n),
         UNCHANGED <<containers, heap, waiter, killer, disk, procVars, serving,
                     wasRunning, restarts>>,
         toStart' \subseteq Names
  PROVE  IInv'
<1> USE DEF IInv, StartCheck, procVars
<1>1. call' \in [Callers -> Calls]
  BY DEF TypeOK, Calls, Idle
<1>2. TypeOK'
  BY <1>1 DEF TypeOK
<1>3. CallInv'
  BY <1>1 DEF CallInv, TypeOK, Idle, MapInv, Exists
<1>4. MapInv' /\ RunInv' /\ WaitInv' /\ ProcInv'
  BY DEF MapInv, RunInv, WaitInv, ProcInv, Exists, Running
<1>5. KillInv' /\ VethInv' /\ CgroupInv' /\ LiveKeepsNetwork'
  BY DEF KillInv, VethInv, CgroupInv, HasLimits, LiveKeepsNetwork, NamedAlone, Inherited, Alive
<1> QED
  BY <1>2, <1>3, <1>4, <1>5

LEMMA StartMountInv ==
  ASSUME IInv, NEW c \in Callers, StartMount(c)
  PROVE  IInv'
<1> USE DEF IInv, StartMount, Return, procVars, bootVars
<1>1. call' \in [Callers -> Calls]
  BY IdleType, GotoType DEF TypeOK
<1>2. disk' \in [Names -> Directories]
  BY PreparedType DEF TypeOK
<1>3. TypeOK'
  BY <1>1, <1>2 DEF TypeOK
<1>4. CallInv'
  BY DEF CallInv, TypeOK, Calls, Goto, Idle
<1>5. MapInv' /\ RunInv' /\ WaitInv' /\ ProcInv'
  BY DEF MapInv, RunInv, WaitInv, ProcInv, Exists, Running
<1>6. KillInv' /\ VethInv' /\ LiveKeepsNetwork'
  BY DEF KillInv, VethInv, LiveKeepsNetwork, NamedAlone, Inherited, Alive
<1>7. CgroupInv'
  BY DEF CgroupInv, HasLimits, Inherited
<1> QED
  BY <1>3, <1>4, <1>5, <1>6, <1>7

LEMMA StopCheckInv ==
  ASSUME IInv, NEW c \in Callers, NEW n \in Names, StopCheck(c, n)
  PROVE  IInv'
<1> USE DEF IInv, StopCheck, Ready, Idle, procVars, bootVars
<1>1. containers[n] \in Objs /\ heap[containers[n]].pid \in Pids
  BY DEF TypeOK, RunInv, Running, Exists
<1>2. call' \in [Callers -> Calls]
  BY <1>1 DEF TypeOK, Calls
<1>3. TypeOK'
  BY <1>1, <1>2 DEF TypeOK
<1>4. CallInv'
  BY <1>1 DEF CallInv, TypeOK
<1>5. MapInv' /\ RunInv' /\ WaitInv' /\ ProcInv'
  BY DEF MapInv, RunInv, WaitInv, ProcInv, Exists, Running
<1>6. KillInv' /\ VethInv' /\ CgroupInv' /\ LiveKeepsNetwork'
  BY DEF KillInv, VethInv, CgroupInv, HasLimits, LiveKeepsNetwork, NamedAlone, Inherited, Alive
<1> QED
  BY <1>3, <1>4, <1>5, <1>6

LEMMA StopSignalInv ==
  ASSUME IInv, NEW c \in Callers, StopSignal(c)
  PROVE  IInv'
<1> USE DEF IInv, StopSignal, Return, bootVars
<1>1. call[c].pid \in Pids
  BY DEF CallInv
<1>2. call' \in [Callers -> Calls]
  BY IdleType DEF TypeOK
<1>3. killer' \in [Pids -> SUBSET {"sleep", "kill"}]
  BY DEF TypeOK
<1>4. TypeOK'
  BY <1>1, <1>2, <1>3 DEF TypeOK
<1>5. CallInv'
  BY DEF CallInv, TypeOK, Idle
<1>6. KillInv'
  BY DEF KillInv, TypeOK
<1>7. MapInv' /\ RunInv' /\ WaitInv' /\ ProcInv'
  BY DEF MapInv, RunInv, WaitInv, ProcInv, Exists, Running
<1>8. VethInv' /\ CgroupInv' /\ LiveKeepsNetwork'
  BY DEF KillInv, VethInv, CgroupInv, HasLimits, LiveKeepsNetwork, NamedAlone, Inherited, Alive
<1> QED
  BY <1>4, <1>5, <1>6, <1>7, <1>8

LEMMA RemoveCheckInv ==
  ASSUME IInv, NEW c \in Callers, NEW n \in Names, RemoveCheck(c, n)
  PROVE  IInv'
<1> USE DEF IInv, RemoveCheck, MayRemove, Ready, procVars, bootVars
<1>1. call' \in [Callers -> Calls]
  BY DEF TypeOK, Calls, Idle
<1>2. containers' \in [Names -> Objs \cup {NoObj}]
  BY DEF TypeOK
<1>3. TypeOK'
  BY <1>1, <1>2 DEF TypeOK
<1>4. CallInv'
  BY <1>1 DEF CallInv, TypeOK, Idle
<1>5. MapInv'
  BY DEF MapInv, Exists, TypeOK
<1>6. RunInv'
  BY DEF RunInv, Running, Exists, TypeOK
<1>7. WaitInv' /\ ProcInv'
  BY DEF MapInv, RunInv, WaitInv, ProcInv, Exists, Running
<1>8. KillInv' /\ VethInv' /\ CgroupInv' /\ LiveKeepsNetwork'
  BY DEF KillInv, VethInv, CgroupInv, HasLimits, LiveKeepsNetwork, NamedAlone, Inherited, Alive
<1> QED
  BY <1>3, <1>4, <1>5, <1>6, <1>7, <1>8

LEMMA RemoveUnmountInv ==
  ASSUME IInv, NEW c \in Callers, RemoveUnmount(c)
  PROVE  IInv'
<1> DEFINE n == call[c].name
<1>1. call' = [call EXCEPT ![c].pc = "removeFiles"] /\ call[c].pc = "removeUnmount"
  BY DEF RemoveUnmount, Goto
<1>2. UNCHANGED <<containers, heap, waiter, killer, procVars, bootVars>>
  BY DEF RemoveUnmount
<1> HIDE DEF n
<1> USE DEF IInv, procVars, bootVars
<1>3. call' \in [Callers -> Calls]
  BY GotoType DEF TypeOK, RemoveUnmount
<1>4. disk' \in [Names -> Directories]
  <2>1. n \in Names /\ disk[n].rootfs \in Images \cup {Empty, Absent}
    BY <1>1 DEF n, CallInv, TypeOK, Directories
  <2>2. Unmounted(disk[n].rootfs) \in Images \cup {Empty, Absent}
    BY <2>1 DEF Unmounted
  <2>3. disk' = [disk EXCEPT ![n].rootfs = Unmounted(disk[n].rootfs)]
    BY DEF n, RemoveUnmount
  <2> QED
    BY <2>2, <2>3, RootfsType DEF TypeOK
<1>5. TypeOK'
  BY <1>2, <1>3, <1>4 DEF TypeOK
<1>6. CallInv'
  BY <1>1, <1>2 DEF CallInv, TypeOK, Calls
<1>7. MapInv' /\ RunInv' /\ WaitInv' /\ ProcInv'
  BY <1>2 DEF MapInv, RunInv, WaitInv, ProcInv, Exists, Running
<1>8. KillInv' /\ VethInv' /\ CgroupInv' /\ LiveKeepsNetwork'
  BY <1>2 DEF KillInv, VethInv, CgroupInv, HasLimits, LiveKeepsNetwork, NamedAlone, Inherited, Alive
<1> QED
  BY <1>5, <1>6, <1>7, <1>8

LEMMA RemovePartInv ==
  ASSUME IInv, NEW c \in Callers, RemovePart(c)
  PROVE  IInv'
<1> USE DEF IInv, RemovePart, goVars, procVars, bootVars
<1>1. disk' \in [Names -> Directories]
  <2> DEFINE n == call[c].name
  <2>1. CASE disk' = [disk EXCEPT ![n].config = NoConfig]
    <3>1. ASSUME NEW d \in Directories PROVE [d EXCEPT !.config = NoConfig] \in Directories
      BY DEF Directories
    <3> QED
      BY <2>1, <3>1 DEF TypeOK
  <2>2. CASE disk' = [disk EXCEPT ![n].rootfs = Absent]
    BY <2>2, RootfsType DEF TypeOK
  <2> QED
    BY <2>1, <2>2
<1>2. TypeOK'
  BY <1>1 DEF TypeOK
<1>3. CallInv'
  BY DEF CallInv
<1>4. MapInv' /\ RunInv' /\ WaitInv' /\ ProcInv'
  BY DEF MapInv, RunInv, WaitInv, ProcInv, Exists, Running
<1>5. KillInv' /\ VethInv' /\ CgroupInv' /\ LiveKeepsNetwork'
  BY DEF KillInv, VethInv, CgroupInv, HasLimits, LiveKeepsNetwork, NamedAlone, Inherited, Alive
<1> QED
  BY <1>2, <1>3, <1>4, <1>5

LEMMA RemoveReturnInv ==
  ASSUME IInv, NEW c \in Callers, RemoveReturn(c)
  PROVE  IInv'
<1> USE DEF IInv, RemoveReturn, Return, procVars, bootVars
<1>1. call' \in [Callers -> Calls]
  BY IdleType DEF TypeOK
<1>2. TypeOK'
  BY <1>1 DEF TypeOK
<1>3. CallInv'
  BY DEF CallInv, TypeOK, Idle
<1>4. MapInv' /\ RunInv' /\ WaitInv' /\ ProcInv'
  BY DEF MapInv, RunInv, WaitInv, ProcInv, Exists, Running
<1>5. KillInv' /\ VethInv' /\ CgroupInv' /\ LiveKeepsNetwork'
  BY DEF KillInv, VethInv, CgroupInv, HasLimits, LiveKeepsNetwork, NamedAlone, Inherited, Alive
<1> QED
  BY <1>2, <1>3, <1>4, <1>5

LEMMA KillerCheckInv ==
  ASSUME IInv, NEW p \in Pids, KillerCheck(p)
  PROVE  IInv'
<1> USE DEF IInv, KillerCheck, procVars, bootVars
<1>1. killer' \in [Pids -> SUBSET {"sleep", "kill"}]
  BY DEF TypeOK
<1>2. TypeOK'
  BY <1>1 DEF TypeOK
<1>3. KillInv'
  BY DEF KillInv, KillTargets, TypeOK
<1>4. CallInv'
  BY DEF CallInv
<1>5. MapInv' /\ RunInv' /\ WaitInv' /\ ProcInv'
  BY DEF MapInv, RunInv, WaitInv, ProcInv, Exists, Running
<1>6. VethInv' /\ CgroupInv' /\ LiveKeepsNetwork'
  BY DEF KillInv, VethInv, CgroupInv, HasLimits, LiveKeepsNetwork, NamedAlone, Inherited, Alive
<1> QED
  BY <1>2, <1>3, <1>4, <1>5, <1>6

\* What Launch and WaiterPublish do to one struct.
LEMMA StructUpdate ==
  ASSUME heap \in [Objs -> Structs], NEW o \in Objs,
         NEW s \in {"running", "stopped"}, NEW i \in Pids \cup {NoPid},
         heap' = [heap EXCEPT ![o].status = s, ![o].pid = i]
  PROVE  /\ heap' \in [Objs -> Structs]
         /\ heap'[o].status = s /\ heap'[o].pid = i
         /\ heap'[o].name = heap[o].name /\ heap'[o].params = heap[o].params
         /\ \A q \in Objs \ {o} : heap'[q] = heap[q]
<1> DEFINE h == [heap[o] EXCEPT !.status = s, !.pid = i]
<1>1. heap' = [heap EXCEPT ![o] = h]
  BY DEF Structs
<1>2. /\ h \in Structs /\ h.status = s /\ h.pid = i
      /\ h.name = heap[o].name /\ h.params = heap[o].params
  BY DEF Structs
<1> HIDE DEF h
<1>3. heap'[o] = h
  BY <1>1
<1>4. \A q \in Objs \ {o} : heap'[q] = heap[q]
  BY <1>1
<1>5. heap' \in [Objs -> Structs]
  BY <1>1, <1>2
<1> QED
  BY <1>2, <1>3, <1>4, <1>5

\* The heart of Start: its second look makes the new process the only one.
LEMMA LaunchInv ==
  ASSUME IInv, NEW o \in Objs, NEW n \in Names, NEW p \in Pids,
         heap[o].name = n, containers[n] = o, ~Running(o), Launch(o, n, p),
         disk' \in [Names -> Directories], call' \in [Callers -> Calls],
         \A d \in Callers : call'[d] \in {call[d], Idle},
         UNCHANGED <<containers, killer, termed, killed, bootVars>>
  PROVE  IInv'
<1> USE DEF IInv, bootVars
<1>1. /\ heap' \in [Objs -> Structs]
      /\ heap'[o].status = "running" /\ heap'[o].pid = p
      /\ heap'[o].name = heap[o].name /\ heap'[o].params = heap[o].params
      /\ \A q \in Objs \ {o} : heap'[q] = heap[q]
  BY StructUpdate DEF Launch, TypeOK
<1>2. /\ procs[p].st = "none" /\ procs' \in [Pids -> Processes]
      /\ procs'[p] = [st |-> "alive", name |-> n, obj |-> o]
      /\ \A q \in Pids \ {p} : procs'[q] = procs[q]
  BY DEF Launch, TypeOK, Processes
<1>3. /\ waiter' \in [Pids -> {"none", "wait", "teardown", "cleanup", "publish"}]
      /\ waiter'[p] = "wait" /\ \A q \in Pids \ {p} : waiter'[q] = waiter[q]
  BY DEF Launch, TypeOK
<1>4. /\ veth' \in [Links -> Pids \cup {NoPid}]
      /\ wired' \subseteq Pids /\ wired \subseteq wired'
      /\ \A l \in Links : veth'[l] # veth[l] =>
            /\ l = LinkOf[n] /\ veth[l] = NoPid /\ veth'[l] = p
            /\ heap[o].params.bridge
      /\ \A q \in wired' \ wired : q = p /\ veth'[LinkOf[n]] = p
      /\ cgroup' \subseteq Names /\ limited' \subseteq Pids
  BY ParamsAssumption DEF Launch, SetupCgroup, SetupNetwork, TypeOK
<1>5. TypeOK'
  BY <1>1, <1>2, <1>3, <1>4 DEF TypeOK
<1>6. CallInv' /\ MapInv' /\ KillInv'
  BY <1>1 DEF CallInv, MapInv, KillInv, TypeOK, Exists, Idle
<1>7. waiter[p] = "none"
  BY <1>2 DEF WaitInv
<1>8. RunInv'
  BY <1>1, <1>2, <1>3, <1>7 DEF RunInv, TypeOK, Running
<1>9. \A q \in Pids : waiter[q] # "none" => procs[q].obj # o
  BY DEF WaitInv
<1>10. WaitInv'
  BY <1>1, <1>2, <1>3, <1>9 DEF WaitInv, Running
<1>11. ProcInv'
  BY <1>2, <1>3 DEF ProcInv
<1>12. VethInv'
  <2>1. ASSUME NEW l \in Links, veth'[l] # NoPid, veth'[l] = veth[l], veth[l] # p
        PROVE  /\ procs'[veth[l]] = procs[veth[l]]
               /\ waiter'[veth[l]] = waiter[veth[l]]
               /\ procs[veth[l]].obj # NoObj =>
                    heap'[procs[veth[l]].obj] = heap[procs[veth[l]].obj]
    <3>1. veth[l] \in Pids \ {p}
      BY <2>1 DEF TypeOK
    <3>2. procs[veth[l]].obj # NoObj => procs[veth[l]].obj \in Objs \ {o}
      BY <1>9, <2>1, <3>1 DEF VethInv, WaitInv
    <3> QED
      BY <1>1, <1>2, <1>3, <3>1, <3>2
  <2>2. ASSUME NEW l \in Links, veth'[l] # NoPid
        PROVE  (/\ procs[veth[l]].st # "none" /\ procs[veth[l]].name \in Names
                /\ LinkOf[procs[veth[l]].name] = l
                /\ procs[veth[l]].obj # NoObj =>
                     /\ waiter[veth[l]] \in {"wait", "teardown"}
                     /\ heap[procs[veth[l]].obj].params.bridge)'
    <3>1. CASE veth'[l] # veth[l]
      BY <1>1, <1>2, <1>3, <1>4, <3>1
    <3>2. CASE veth'[l] = veth[l]
      <4>1. veth[l] # p
        BY <1>2, <2>2, <3>2 DEF VethInv
      <4> QED
        BY <2>1, <2>2, <3>2, <4>1 DEF VethInv
    <3> QED
      BY <3>1, <3>2
  <2>3. ASSUME NEW q \in wired' PROVE (Alive(q) /\ procs[q].name \in Names)'
    <3>1. CASE q \in wired
      BY <1>2, <3>1 DEF VethInv, Alive, TypeOK
    <3>2. CASE q \notin wired
      BY <1>2, <1>4, <2>3, <3>2 DEF Alive
    <3> QED
      BY <3>1, <3>2
  <2> QED
    BY <2>2, <2>3 DEF VethInv
<1>13. LiveKeepsNetwork'
  <2> SUFFICES ASSUME NEW q \in wired', procs'[q].obj # NoObj, NamedAlone(procs'[q].name)
               PROVE  veth'[LinkOf[procs'[q].name]] = q
    BY DEF LiveKeepsNetwork, NamedAlone
  <2>1. CASE q \in wired
    <3>1. q \in Pids \ {p} /\ procs'[q] = procs[q] /\ procs[q].name \in Names
      BY <1>2, <2>1 DEF VethInv, Alive, TypeOK
    <3>2. veth[LinkOf[procs[q].name]] = q /\ LinkOf[procs[q].name] \in Links
      BY <2>1, <3>1, ParamsAssumption DEF LiveKeepsNetwork
    <3> QED
      BY <1>4, <3>1, <3>2, NullAssumption
  <2>2. CASE q \notin wired
    BY <1>2, <1>4, <2>2
  <2> QED
    BY <2>1, <2>2
<1>14. CgroupInv'
  <2> SUFFICES ASSUME NEW m \in cgroup'
               PROVE  (Inherited(m) \/ \E q \in Pids :
                          /\ procs[q].name = m /\ HasLimits(q)
                          /\ waiter[q] \in {"wait", "teardown", "cleanup"})'
    BY DEF CgroupInv
  <2>1. CASE m \in cgroup
    <3>1. CASE Inherited(m)
      BY <1>2, <3>1 DEF Inherited
    <3>2. CASE \E q \in Pids : /\ procs[q].name = m /\ HasLimits(q)
                               /\ waiter[q] \in {"wait", "teardown", "cleanup"}
      <4>1. PICK q \in Pids : /\ procs[q].name = m /\ HasLimits(q)
                              /\ waiter[q] \in {"wait", "teardown", "cleanup"}
        BY <3>2
      <4>2. q # p /\ procs[q].obj \in Objs
        BY <1>7, <4>1 DEF WaitInv
      <4> QED
        BY <1>1, <1>2, <1>3, <4>1, <4>2 DEF HasLimits
    <3> QED
      BY <2>1, <3>1, <3>2 DEF CgroupInv
  <2>2. CASE m \notin cgroup
    <3>1. m = n /\ heap[o].params.limits
      BY <2>2 DEF Launch, SetupCgroup
    <3> QED
      BY <1>1, <1>2, <1>3, <3>1 DEF HasLimits
  <2> QED
    BY <2>1, <2>2
<1> QED
  BY <1>5, <1>6, <1>8, <1>10, <1>11, <1>12, <1>13, <1>14

LEMMA StartLaunchInv ==
  ASSUME IInv, NEW c \in Callers, StartLaunch(c)
  PROVE  IInv'
<1> DEFINE o == call[c].obj
           n == call[c].name
<1>1. o \in Objs /\ n \in Names /\ heap[o].name = n
  BY DEF IInv, CallInv, StartLaunch
<1>2. call' \in [Callers -> Calls] /\ \A d \in Callers : call'[d] \in {call[d], Idle}
  BY IdleType DEF IInv, TypeOK, StartLaunch, Return
<1>3. UNCHANGED <<containers, killer, termed, killed, bootVars>>
  BY DEF StartLaunch
<1>4. RootfsTouched(o, n) => disk' \in [Names -> Directories]
  <2>1. disk \in [Names -> Directories] /\ disk[n].rootfs \in Images \cup {Empty, Absent}
    BY <1>1 DEF IInv, TypeOK, Directories
  <2> DEFINE r == IF disk[n].rootfs = Absent /\ heap[o].params.src # External
                  THEN Empty ELSE disk[n].rootfs
  <2>2. r \in Images \cup {Empty, Absent}
    BY <2>1
  <2>3. RootfsTouched(o, n) => disk' = [disk EXCEPT ![n].rootfs = r]
    BY DEF RootfsTouched
  <2> QED
    BY <2>1, <2>2, <2>3, RootfsType
<1>5. CASE /\ StartMayLaunch(c) /\ RootfsTouched(o, n)
           /\ \E p \in Pids : Launch(o, n, p)
  BY <1>1, <1>2, <1>3, <1>4, <1>5, LaunchInv DEF StartMayLaunch
<1>6. CASE /\ disk' \in [Names -> Directories]
           /\ UNCHANGED <<procs, heap, cgroup, limited, veth, wired, waiter>>
  <2> USE <1>2, <1>3, <1>6 DEF IInv, bootVars
  <2>1. TypeOK' /\ CallInv'
    BY DEF TypeOK, CallInv, Idle
  <2>2. MapInv' /\ RunInv' /\ WaitInv' /\ ProcInv'
    BY DEF MapInv, RunInv, WaitInv, ProcInv, Exists, Running
  <2>3. KillInv' /\ VethInv' /\ CgroupInv' /\ LiveKeepsNetwork'
    BY DEF KillInv, VethInv, CgroupInv, HasLimits, LiveKeepsNetwork, NamedAlone, Inherited, Alive
  <2> QED
    BY <2>1, <2>2, <2>3
<1>7. UNCHANGED disk => disk' \in [Names -> Directories]
  BY DEF IInv, TypeOK
<1> QED
  BY <1>4, <1>5, <1>6, <1>7 DEF StartLaunch

LEMMA DiesInv ==
  ASSUME IInv, NEW p \in Pids, Alive(p), Dies(p),
         killer' \in [Pids -> SUBSET {"sleep", "kill"}], KillInv',
         UNCHANGED <<containers, heap, waiter, call, termed, cgroup, limited, disk, bootVars>>
  PROVE  IInv'
<1> USE DEF IInv
<1>1. /\ procs' \in [Pids -> Processes]
      /\ procs'[p].st = "zombie"
      /\ procs'[p].name = procs[p].name /\ procs'[p].obj = procs[p].obj
      /\ \A q \in Pids \ {p} : procs'[q] = procs[q]
  <2>1. procs \in [Pids -> Processes] /\ procs' = [procs EXCEPT ![p].st = "zombie"]
    BY DEF Dies, TypeOK
  <2>2. [procs[p] EXCEPT !.st = "zombie"] \in Processes
    BY <2>1 DEF Processes
  <2>3. procs[p] \in Processes
    BY <2>1
  <2>4. procs'[p] = [procs[p] EXCEPT !.st = "zombie"]
    BY <2>1
  <2>5. procs' \in [Pids -> Processes] /\ \A q \in Pids \ {p} : procs'[q] = procs[q]
    BY <2>1, <2>2
  <2> QED
    BY <2>3, <2>4, <2>5 DEF Processes
<1>2. /\ veth' \in [Links -> Pids \cup {NoPid}] /\ wired' = wired \ {p}
      /\ \A l \in Links : veth'[l] \in {veth[l], NoPid}
      /\ \A l \in Links : veth[l] # p => veth'[l] = veth[l]
  BY DEF Dies, TypeOK
<1>3. TypeOK'
  BY <1>1, <1>2 DEF TypeOK, KillInv, bootVars
<1>4. CallInv' /\ MapInv'
  BY DEF CallInv, MapInv, Exists
<1>5. RunInv' /\ WaitInv'
  BY <1>1 DEF RunInv, WaitInv, ProcInv, Running, Alive
<1>6. ProcInv'
  BY <1>1 DEF ProcInv, Alive
<1>7. VethInv'
  <2>1. \A q \in Pids : /\ procs'[q].name = procs[q].name /\ procs'[q].obj = procs[q].obj
                        /\ procs[q].st # "none" => procs'[q].st # "none"
    BY <1>1
  <2>2. \A q \in wired' : Alive(q)' /\ procs'[q].name \in Names
    BY <1>1, <1>2 DEF VethInv, Alive, TypeOK
  <2> QED
    BY <1>2, <2>1, <2>2 DEF VethInv, TypeOK
<1>8. LiveKeepsNetwork'
  <2> SUFFICES ASSUME NEW q \in wired', procs'[q].obj # NoObj, NamedAlone(procs'[q].name)
               PROVE  veth'[LinkOf[procs'[q].name]] = q
    BY DEF LiveKeepsNetwork, NamedAlone
  <2>1. q \in wired /\ q \in Pids \ {p} /\ procs'[q] = procs[q]
    BY <1>1, <1>2 DEF TypeOK
  <2>2. veth[LinkOf[procs[q].name]] = q /\ LinkOf[procs[q].name] \in Links
    BY <2>1, ParamsAssumption DEF LiveKeepsNetwork, VethInv
  <2> QED
    BY <1>2, <2>1, <2>2
<1>9. CgroupInv'
  BY <1>1 DEF CgroupInv, Inherited, HasLimits, Alive
<1> QED
  BY <1>3, <1>4, <1>5, <1>6, <1>7, <1>8, <1>9

LEMMA WaiterReapInv ==
  ASSUME IInv, NEW p \in Pids, WaiterReap(p)
  PROVE  IInv'
<1> USE DEF IInv, WaiterReap, After, bootVars
<1>1. procs' \in [Pids -> Processes]
  <2>1. [procs[p] EXCEPT !.st = "reaped"] \in Processes
    BY DEF TypeOK, Processes
  <2> QED
    BY <2>1 DEF TypeOK
<1>2. waiter' \in [Pids -> {"none", "wait", "teardown", "cleanup", "publish"}]
  BY DEF TypeOK
<1>3. TypeOK'
  BY <1>1, <1>2 DEF TypeOK
<1>4. CallInv' /\ MapInv' /\ KillInv'
  BY DEF CallInv, MapInv, KillInv, Exists
<1>5. RunInv'
  BY DEF RunInv, TypeOK, Processes, Running
<1>6. WaitInv'
  BY DEF WaitInv, TypeOK, Processes, Running
<1>7. ProcInv'
  BY DEF ProcInv, TypeOK, Processes
<1>8. ASSUME NEW q \in Pids
      PROVE  /\ procs'[q].name = procs[q].name /\ procs'[q].obj = procs[q].obj
             /\ procs[q].st # "none" => procs'[q].st # "none"
             /\ procs[q].st = "alive" => procs'[q].st = "alive"
             /\ waiter[q] \in {"wait", "teardown"} => waiter'[q] \in {"wait", "teardown"}
  BY DEF TypeOK, Processes
<1>9. VethInv' /\ LiveKeepsNetwork'
  BY <1>8 DEF VethInv, LiveKeepsNetwork, NamedAlone, Alive, TypeOK
<1>10. CgroupInv'
  <2>1. ASSUME NEW q \in Pids PROVE
             /\ procs'[q].name = procs[q].name /\ procs'[q].obj = procs[q].obj
             /\ procs[q].st = "alive" => procs'[q].st = "alive"
             /\ waiter[q] \in {"wait", "teardown", "cleanup"}
                    => waiter'[q] \in {"wait", "teardown", "cleanup"}
    BY DEF TypeOK, Processes
  <2>2. ASSUME NEW m, Inherited(m) PROVE Inherited(m)'
    BY <2>2 DEF Inherited, TypeOK, Processes
  <2> QED
    BY <2>1, <2>2 DEF CgroupInv, HasLimits
<1> QED
  BY <1>3, <1>4, <1>5, <1>6, <1>7, <1>9, <1>10

LEMMA WaiterTeardownInv ==
  ASSUME IInv, NEW p \in Pids, WaiterTeardown(p)
  PROVE  IInv'
<1> USE DEF IInv, WaiterTeardown, After, bootVars
<1>1. waiter' \in [Pids -> {"none", "wait", "teardown", "cleanup", "publish"}]
  BY DEF TypeOK
<1>2. /\ waiter[p] = "teardown" /\ procs[p].name \in Names
      /\ containers[procs[p].name] = procs[p].obj /\ heap[procs[p].obj].pid = p
      /\ procs[p].st = "reaped" /\ LinkOf[procs[p].name] \in Links
  BY ParamsAssumption DEF WaitInv, RunInv
<1>11. /\ veth' \in [Links -> Pids \cup {NoPid}]
       /\ \A l \in Links : veth'[l] \in {veth[l], NoPid}
       /\ \A l \in Links \ {LinkOf[procs[p].name]} : veth'[l] = veth[l]
       /\ heap[procs[p].obj].params.bridge => veth'[LinkOf[procs[p].name]] = NoPid
  BY <1>2 DEF TypeOK
<1>3. TypeOK'
  BY <1>1, <1>11 DEF TypeOK
<1>4. CallInv' /\ MapInv' /\ KillInv'
  BY DEF CallInv, MapInv, KillInv, Exists
<1>5. RunInv'
  BY DEF RunInv, TypeOK, Running
<1>6. WaitInv'
  BY DEF WaitInv, TypeOK, Running
<1>7. ProcInv'
  BY DEF ProcInv, WaitInv, TypeOK
<1>8. VethInv'
  <2>1. ASSUME NEW l \in Links, veth'[l] # NoPid, procs[veth[l]].obj # NoObj
        PROVE  veth[l] # p
    BY <1>2, <1>11, <2>1 DEF VethInv
  <2>2. \A q \in Pids \ {p} : waiter'[q] = waiter[q]
    BY DEF TypeOK
  <2>3. UNCHANGED <<heap, procs, wired>>
    OBVIOUS
  <2>4. ASSUME NEW l \in Links, veth'[l] # NoPid
        PROVE  /\ veth'[l] = veth[l] /\ veth[l] \in Pids
               /\ procs[veth[l]].obj # NoObj => waiter'[veth[l]] = waiter[veth[l]]
    BY <1>11, <2>1, <2>2, <2>4 DEF TypeOK
  <2> HIDE DEF IInv, WaiterTeardown
  <2>5. VethInv
    BY DEF IInv
  <2> QED
    BY <2>3, <2>4, <2>5 DEF VethInv, Alive
<1>9. LiveKeepsNetwork'
  <2> SUFFICES ASSUME NEW q \in wired, procs[q].obj # NoObj, NamedAlone(procs[q].name)
               PROVE  veth'[LinkOf[procs[q].name]] = q
    BY DEF LiveKeepsNetwork, NamedAlone
  <2>1. q \in Pids /\ Alive(q) /\ procs[q].name \in Names /\ procs[q].obj \in Objs
    BY DEF VethInv, TypeOK, Processes
  <2>2. /\ containers[procs[q].name] = procs[q].obj /\ heap[procs[q].obj].pid = q
        /\ waiter[q] = "wait"
    BY <2>1 DEF ProcInv, WaitInv, RunInv, Alive
  <2>3. procs[q].name # procs[p].name
    BY <1>2, <2>2
  <2>4. LinkOf[procs[q].name] \in Links \ {LinkOf[procs[p].name]}
    BY <1>2, <2>1, <2>3, ParamsAssumption DEF NamedAlone
  <2> QED
    BY <1>11, <2>4 DEF LiveKeepsNetwork
<1>10. CgroupInv'
  BY DEF CgroupInv, Inherited, HasLimits, TypeOK
<1> QED
  BY <1>3, <1>4, <1>5, <1>6, <1>7, <1>8, <1>9, <1>10

LEMMA WaiterCleanupInv ==
  ASSUME IInv, NEW p \in Pids, WaiterCleanup(p)
  PROVE  IInv'
<1> USE DEF IInv, WaiterCleanup, After, bootVars
<1>1. waiter' \in [Pids -> {"none", "wait", "teardown", "cleanup", "publish"}]
  BY DEF TypeOK
<1>2. cgroup' \subseteq Names /\ limited' \subseteq Pids
  BY DEF TypeOK
<1>3. TypeOK'
  BY <1>1, <1>2 DEF TypeOK
<1>4. CallInv' /\ MapInv' /\ KillInv'
  BY DEF CallInv, MapInv, KillInv, Exists
<1>5. RunInv'
  BY DEF RunInv, TypeOK, Running
<1>6. WaitInv'
  BY DEF WaitInv, TypeOK, Running
<1>7. ProcInv'
  BY DEF ProcInv, WaitInv, TypeOK
<1>8. VethInv' /\ LiveKeepsNetwork'
  BY DEF VethInv, LiveKeepsNetwork, NamedAlone, Alive, TypeOK
<1>9. CgroupInv'
  <2> DEFINE n == procs[p].name
  <2>1. /\ waiter[p] = "cleanup" /\ procs[p].st = "reaped" /\ n \in Names
        /\ containers[n] = procs[p].obj /\ heap[procs[p].obj].pid = p
    BY DEF WaitInv, RunInv
  <2>2. ASSUME NEW q \in Pids, procs[q].name = n, waiter[q] # "none" PROVE q = p
    BY <2>1, <2>2 DEF WaitInv, RunInv
  <2> SUFFICES ASSUME NEW m \in cgroup', ~Inherited(m)
               PROVE  \E q \in Pids : /\ procs[q].name = m /\ HasLimits(q)
                                      /\ waiter'[q] \in {"wait", "teardown", "cleanup"}
    BY DEF CgroupInv, Inherited, HasLimits
  <2>3. PICK q \in Pids : /\ procs[q].name = m /\ HasLimits(q)
                          /\ waiter[q] \in {"wait", "teardown", "cleanup"}
    BY DEF CgroupInv
  <2>4. ASSUME m = n PROVE FALSE
    <3>1. q = p /\ HasLimits(p)
      BY <2>2, <2>3, <2>4
    <3>2. PICK r \in limited : procs[r].name = n /\ Alive(r)
      BY <2>4, <3>1 DEF CgroupEmpty
    <3>3. r \in Pids /\ procs[r] \in Processes
      BY <3>2 DEF TypeOK
    <3>4. procs[r].obj \in Objs
      BY <2>4, <3>2, <3>3 DEF Inherited, Alive, Processes
    <3>5. r = p
      BY <2>2, <3>2, <3>3, <3>4 DEF ProcInv, Alive
    <3> QED
      BY <2>1, <3>2, <3>5 DEF Alive
  <2>5. waiter'[q] = waiter[q]
    BY <2>3, <2>4 DEF TypeOK
  <2> QED
    BY <2>3, <2>5
<1> QED
  BY <1>3, <1>4, <1>5, <1>6, <1>7, <1>8, <1>9

LEMMA WaiterPublishInv ==
  ASSUME IInv, NEW p \in Pids, WaiterPublish(p)
  PROVE  IInv'
<1> DEFINE o == procs[p].obj
<1> USE DEF IInv
<1>1. /\ waiter[p] = "publish"
      /\ waiter' = [waiter EXCEPT ![p] = "none"]
      /\ UNCHANGED <<containers, killer, call, procVars, disk, bootVars>>
  BY DEF WaiterPublish, After
<1>2. o \in Objs /\ Running(o) /\ heap[o].pid = p /\ procs[p].st = "reaped"
  BY <1>1 DEF WaitInv
<1>3. /\ heap' \in [Objs -> Structs]
      /\ heap'[o].status = "stopped"
      /\ heap'[o].name = heap[o].name /\ heap'[o].params = heap[o].params
      /\ \A q \in Objs \ {o} : heap'[q] = heap[q]
  BY <1>2, StructUpdate DEF WaiterPublish, TypeOK
<1>4. /\ waiter'[p] = "none" /\ \A q \in Pids \ {p} : waiter'[q] = waiter[q]
      /\ waiter' \in [Pids -> {"none", "wait", "teardown", "cleanup", "publish"}]
  BY <1>1 DEF TypeOK
<1> HIDE DEF o
<1>5. TypeOK'
  BY <1>1, <1>3, <1>4 DEF TypeOK, procVars, bootVars
<1>6. CallInv' /\ MapInv' /\ KillInv'
  BY <1>1, <1>2, <1>3 DEF CallInv, MapInv, KillInv, TypeOK, Exists, procVars
<1>7. \A q \in Pids \ {p} : waiter[q] # "none" => procs[q].obj # o
  BY <1>2 DEF WaitInv
<1>8. RunInv' /\ WaitInv'
  BY <1>1, <1>2, <1>3, <1>4, <1>7 DEF RunInv, WaitInv, Running, procVars
<1>9. ProcInv'
  BY <1>1, <1>2, <1>4 DEF ProcInv, procVars
<1>10. VethInv' /\ LiveKeepsNetwork'
  <2>1. ASSUME NEW q \in Pids, waiter[q] # "none"
        PROVE  heap'[procs[q].obj].params = heap[procs[q].obj].params
    BY <1>2, <1>3, <2>1 DEF WaitInv
  <2> QED
    BY <1>1, <1>4, <2>1 DEF VethInv, LiveKeepsNetwork, NamedAlone, Alive, TypeOK, procVars
<1>11. CgroupInv'
  <2>1. \A q \in Pids : waiter[q] \in {"wait", "teardown", "cleanup"} => q # p /\ procs[q].obj \in Objs
    BY <1>1 DEF WaitInv
  <2> QED
    BY <1>1, <1>3, <1>4, <2>1 DEF CgroupInv, Inherited, HasLimits, procVars
<1> QED
  BY <1>5, <1>6, <1>8, <1>9, <1>10, <1>11

\* What loadConfigs leaves: structs filed under their names, none running.
LEMMA LoadedInv ==
  ASSUME NEW d \in [Names -> Directories], Loaded(d)
  PROVE  /\ containers' \in [Names -> Objs \cup {NoObj}]
         /\ heap' \in [Objs -> Structs]
         /\ \A o \in Objs : heap'[o].status # "running"
         /\ MapInv' /\ toStart' \subseteq Names
<1> DEFINE found == {n \in Names : Restorable(d[n])}
           owner(f, o) == CHOOSE m \in found : f[m] = o
           struct(f, o) == [status |-> "stopped", name |-> owner(f, o),
                            params |-> d[owner(f, o)].config, pid |-> NoPid]
<1>1. PICK f \in [found -> Objs] :
        /\ \A m, n \in found : f[m] = f[n] => m = n
        /\ containers' = [n \in Names |-> IF n \in found THEN f[n] ELSE NoObj]
        /\ heap' = [o \in Objs |-> IF \E n \in found : f[n] = o
                                    THEN struct(f, o) ELSE Free]
  BY DEF Loaded
<1>2. \A o \in Objs : (\E n \in found : f[n] = o)
                     => owner(f, o) \in found /\ f[owner(f, o)] = o
  OBVIOUS
<1>3. \A n \in found : owner(f, f[n]) = n
  BY <1>1, <1>2
<1>4. \A n \in found : d[n].config \in Params \cup {NoConfig}
  BY DEF Directories
<1>5. \A o \in Objs : (\E n \in found : f[n] = o)
                     => /\ struct(f, o) \in Structs
                        /\ struct(f, o).status = "stopped"
                        /\ struct(f, o).name = owner(f, o)
  BY <1>2, <1>4 DEF Structs
<1> HIDE DEF owner, struct
<1>6. Free \in Structs /\ Free.status = "free"
  BY DEF Free, Structs
<1>7. /\ heap' \in [Objs -> Structs]
      /\ \A o \in Objs : heap'[o].status # "running"
  BY <1>1, <1>5, <1>6
<1>8. MapInv'
  <2> SUFFICES ASSUME NEW n \in Names, containers'[n] # NoObj
               PROVE  heap'[containers'[n]].name = n
    BY DEF MapInv, Exists
  <2>1. n \in found /\ containers'[n] = f[n] /\ f[n] \in Objs
    BY <1>1
  <2>2. heap'[f[n]] = struct(f, f[n])
    BY <1>1, <2>1
  <2> QED
    BY <1>3, <1>5, <2>1, <2>2
<1>9. containers' \in [Names -> Objs \cup {NoObj}] /\ toStart' \subseteq Names
  <2>1. toStart' \subseteq Names
    BY DEF Loaded
  <2> QED
    BY <1>1, <2>1
<1> QED
  BY <1>7, <1>8, <1>9

LEMMA LoadedRest ==
  ASSUME TypeOK, NEW d \in [Names -> Directories], Loaded(d),
         restarts < MaxRestarts, restarts' = restarts + 1
  PROVE  /\ waiter' = [p \in Pids |-> "none"] /\ killer' = [p \in Pids |-> {}]
         /\ call' = [c \in Callers |-> Idle] /\ serving' \in BOOLEAN
         /\ wasRunning' \subseteq Names /\ disk' = d
         /\ restarts' \in 0..MaxRestarts
<1>1. restarts' \in 0..MaxRestarts
  BY ParamsAssumption DEF TypeOK
<1>2. serving' = FALSE /\ wasRunning' \subseteq Names /\ disk' = d
  BY DEF Loaded
<1>3. /\ waiter' = [p \in Pids |-> "none"] /\ killer' = [p \in Pids |-> {}]
      /\ call' = [c \in Callers |-> Idle]
  BY DEF Loaded
<1> QED
  BY <1>1, <1>2, <1>3

LEMMA VmRestartInv ==
  ASSUME IInv, VmRestart
  PROVE  IInv'
<1> DEFINE d == [n \in Names |-> [disk[n] EXCEPT !.rootfs = Unmounted(@)]]
<1>1. d \in [Names -> Directories]
  <2> SUFFICES ASSUME NEW n \in Names
               PROVE  [disk[n] EXCEPT !.rootfs = Unmounted(@)] \in Directories
    OBVIOUS
  <2>1. disk[n] \in Directories /\ disk[n].rootfs \in Images \cup {Empty, Absent}
    BY DEF IInv, TypeOK, Directories
  <2>2. Unmounted(disk[n].rootfs) \in Images \cup {Empty, Absent}
    BY <2>1 DEF Unmounted
  <2> QED
    BY <2>1, <2>2 DEF Directories
<1>2. /\ Loaded(d) /\ restarts < MaxRestarts /\ restarts' = restarts + 1
      /\ procs' = [p \in Pids |-> NoProc] /\ termed' = {} /\ killed' = {}
      /\ veth' = [l \in Links |-> NoPid] /\ wired' = {} /\ cgroup' = {} /\ limited' = {}
  BY DEF VmRestart
<1> HIDE DEF d
<1>3. TypeOK'
  BY <1>1, <1>2, LoadedInv, LoadedRest, IdleType DEF IInv, TypeOK, NoProc, Processes
<1>4. MapInv' /\ RunInv'
  BY <1>1, <1>2, LoadedInv DEF RunInv, Running
<1>5. WaitInv' /\ ProcInv' /\ CallInv' /\ KillInv'
  BY <1>1, <1>2, LoadedRest DEF IInv, WaitInv, ProcInv, CallInv, KillInv, NoProc, Idle
<1>6. VethInv' /\ CgroupInv' /\ LiveKeepsNetwork'
  BY <1>2 DEF VethInv, CgroupInv, LiveKeepsNetwork, NamedAlone, Inherited, Alive, NoProc
<1> QED
  BY <1>3, <1>4, <1>5, <1>6 DEF IInv

LEMMA AgentRestartInv ==
  ASSUME IInv, AgentRestart
  PROVE  IInv'
<1>1. /\ AgentRestarts /\ Loaded(disk)
      /\ restarts < MaxRestarts /\ restarts' = restarts + 1
      /\ UNCHANGED <<termed, killed, veth, wired, cgroup, limited>>
  BY DEF AgentRestart
<1>2. disk \in [Names -> Directories]
  BY DEF IInv, TypeOK
<1>3. /\ procs' \in [Pids -> Processes]
      /\ \A p \in Pids : /\ procs'[p].obj = NoObj /\ procs'[p].name = procs[p].name
                         /\ procs[p].st = "alive" => procs'[p].st = "alive"
                         /\ procs[p].st # "none" => procs'[p].st # "none"
  <2> DEFINE q == [p \in Pids |-> [procs[p] EXCEPT
                     !.st = IF @ = "zombie" THEN "reaped" ELSE @, !.obj = NoObj]]
  <2>1. procs' = q
    BY DEF AgentRestart
  <2>2. ASSUME NEW p \in Pids
        PROVE  /\ q[p] \in Processes
               /\ q[p].obj = NoObj /\ q[p].name = procs[p].name
               /\ procs[p].st = "alive" => q[p].st = "alive"
               /\ procs[p].st # "none" => q[p].st # "none"
    <3>1. procs[p] \in Processes
      BY DEF IInv, TypeOK
    <3>2. q[p] = [procs[p] EXCEPT !.st = IF @ = "zombie" THEN "reaped" ELSE @,
                                  !.obj = NoObj]
      OBVIOUS
    <3> HIDE DEF q
    <3> QED
      BY <3>1, <3>2 DEF Processes
  <2>3. q = [p \in Pids |-> q[p]]
    OBVIOUS
  <2> HIDE DEF q
  <2> QED
    BY <2>1, <2>2, <2>3
<1>4. TypeOK'
  BY <1>1, <1>2, <1>3, LoadedInv, LoadedRest, IdleType DEF IInv, TypeOK
<1>5. MapInv' /\ RunInv'
  BY <1>1, <1>2, LoadedInv DEF RunInv, Running
<1>6. WaitInv' /\ ProcInv' /\ CallInv' /\ KillInv'
  BY <1>1, <1>2, <1>3, LoadedRest, NullAssumption
     DEF IInv, WaitInv, ProcInv, CallInv, KillInv, Idle
<1>7. VethInv' /\ LiveKeepsNetwork'
  BY <1>1, <1>3 DEF IInv, TypeOK, VethInv, LiveKeepsNetwork, Alive
<1>8. CgroupInv'
  <2> SUFFICES ASSUME NEW n \in cgroup PROVE Inherited(n)'
    BY <1>1 DEF CgroupInv
  <2>1. PICK p \in Pids : procs[p].st # "none" /\ procs[p].name = n
    BY DEF IInv, CgroupInv, Inherited, WaitInv
  <2>2. procs'[p].st # "none"
    BY <2>1, <1>3
  <2> QED
    BY <1>3, <2>1, <2>2 DEF Inherited
<1> QED
  BY <1>4, <1>5, <1>6, <1>7, <1>8 DEF IInv

LEMMA ServeInv ==
  ASSUME IInv, Serve
  PROVE  IInv'
<1> USE DEF IInv, Serve, goVars, procVars
<1>1. TypeOK'
  BY DEF TypeOK
<1>2. MapInv' /\ RunInv' /\ WaitInv' /\ ProcInv'
  BY DEF MapInv, RunInv, WaitInv, ProcInv, Exists, Running
<1>3. CallInv' /\ KillInv' /\ VethInv' /\ CgroupInv' /\ LiveKeepsNetwork'
  BY DEF CallInv, KillInv, VethInv, CgroupInv, HasLimits, LiveKeepsNetwork,
         NamedAlone, Inherited, Alive
<1> QED
  BY <1>1, <1>2, <1>3

-----------------------------------------------------------------------------
\* Every step preserves the invariant.
LEMMA NextInv == ASSUME IInv, [Next]_vars PROVE IInv'
<1>1. CASE UNCHANGED vars
  <2> USE <1>1 DEF IInv, vars
  <2>1. TypeOK' /\ CallInv'
    BY DEF TypeOK, CallInv
  <2>2. MapInv' /\ RunInv' /\ WaitInv' /\ ProcInv'
    BY DEF MapInv, RunInv, WaitInv, ProcInv, Exists, Running
  <2>3. KillInv' /\ VethInv' /\ CgroupInv' /\ LiveKeepsNetwork'
    BY DEF KillInv, VethInv, CgroupInv, HasLimits, LiveKeepsNetwork, NamedAlone, Inherited, Alive
  <2> QED
    BY <2>1, <2>2, <2>3
<1>2. ASSUME NEW c \in Callers, Continue(c) PROVE IInv'
  BY <1>2, CreatePrepInv, CreateCommitInv, StartMountInv, StartLaunchInv,
     StopSignalInv, RemoveUnmountInv, RemovePartInv, RemoveReturnInv DEF Continue
<1>3. ASSUME NEW c \in Callers, NEW n \in Names, Request(c, n) PROVE IInv'
  <2>1. CASE Start(c, n)
    BY <2>1, StartCheckInv DEF Start, bootVars, IInv, TypeOK
  <2> QED
    BY <1>3, <2>1, CreateCheckInv, StopCheckInv, RemoveCheckInv DEF Request
<1>4. ASSUME NEW p \in Pids, Waiter(p) PROVE IInv'
  BY <1>4, WaiterReapInv, WaiterTeardownInv, WaiterCleanupInv, WaiterPublishInv
     DEF Waiter
<1>5. ASSUME NEW p \in Pids, KillerKill(p) PROVE IInv'
  <2>1. killer' \in [Pids -> SUBSET {"sleep", "kill"}] /\ KillInv'
    BY <1>5 DEF KillerKill, IInv, TypeOK, KillInv
  <2>2. CASE Alive(p)
    BY <1>5, <2>1, <2>2, DiesInv DEF KillerKill
  <2>3. CASE ~Alive(p)
    <3> USE <1>5, <2>1, <2>3 DEF IInv, KillerKill, bootVars
    <3>1. TypeOK' /\ CallInv'
      BY DEF TypeOK, CallInv
    <3>2. MapInv' /\ RunInv' /\ WaitInv' /\ ProcInv'
      BY DEF MapInv, RunInv, WaitInv, ProcInv, Exists, Running
    <3>3. VethInv' /\ CgroupInv' /\ LiveKeepsNetwork'
      BY DEF VethInv, CgroupInv, HasLimits, LiveKeepsNetwork, NamedAlone, Inherited, Alive
    <3> QED
      BY <3>1, <3>2, <3>3
  <2> QED
    BY <2>2, <2>3
<1>6. ASSUME NEW p \in Pids, Exit(p) PROVE IInv'
  <2>1. killer' \in [Pids -> SUBSET {"sleep", "kill"}] /\ KillInv'
    BY <1>6 DEF Exit, goVars, IInv, TypeOK, KillInv
  <2> QED
    BY <1>6, <2>1, DiesInv DEF Exit, goVars
<1>7. ASSUME NEW n \in Names, AutoStart(n) PROVE IInv'
  BY <1>7, StartCheckInv, ParamsAssumption DEF AutoStart, IInv, TypeOK
<1> QED
  BY <1>1, <1>2, <1>3, <1>4, <1>5, <1>6, <1>7, KillerCheckInv, ServeInv,
     VmRestartInv, AgentRestartInv DEF Next, Killer, Boot

\* The inductive invariant holds in every reachable state.
THEOREM Invariance == Spec => []IInv
<1>1. Init => IInv
  BY InitInv
<1>2. IInv /\ [Next]_vars => IInv'
  BY NextInv
<1> QED
  BY <1>1, <1>2, PTL DEF Spec

\* Type correctness.
THEOREM TypeCorrect == Spec => []TypeOK
<1>1. IInv => TypeOK
  BY DEF IInv
<1> QED
  BY <1>1, Invariance, PTL

\* A container runs exactly as long as one goroutine waits for the process it
\* names, whatever the interleaving and the restarts (container.go:452-500).
THEOREM OneWaiter == Spec => []RunningHasWaiter
<1>1. IInv => RunningHasWaiter
  BY DEF IInv, RunningHasWaiter, RunInv, WaitInv, TypeOK
<1> QED
  BY <1>1, Invariance, PTL

\* SIGKILL is sent only to processes that Stop was asked to end (505-534).
THEOREM KillSafety == Spec => []KillsOnlyStopped
<1>1. IInv => KillsOnlyStopped
  BY DEF IInv, KillInv, KillsOnlyStopped
<1> QED
  BY <1>1, Invariance, PTL

\* The manager accounts for every live process it started, however many
\* goroutines call it, and through disk errors and restarts (373-503, 536-549).
THEOREM Tracking == Spec => []LiveTracked
<1>1. IInv => LiveTracked
  <2> SUFFICES ASSUME IInv, NEW p \in Pids, Alive(p), procs[p].obj # NoObj
               PROVE  /\ Exists(procs[p].name)
                      /\ heap[containers[procs[p].name]].status = "running"
                      /\ heap[containers[procs[p].name]].pid = p
    BY DEF LiveTracked
  <2>1. procs[p].obj \in Objs
    BY DEF IInv, TypeOK, Processes
  <2>2. waiter[p] = "wait"
    BY <2>1 DEF IInv, ProcInv, Alive
  <2>3. /\ Running(procs[p].obj) /\ heap[procs[p].obj].pid = p
        /\ containers[procs[p].name] = procs[p].obj
    BY <2>2 DEF IInv, WaitInv, RunInv
  <2> QED
    BY <2>1, <2>3, NullAssumption DEF Exists, Running
<1> QED
  BY <1>1, Invariance, PTL

\* Two processes of one agent never share a container's name, hence its rootfs.
THEOREM Uniqueness == Spec => []OneProcessPerName
<1>1. LiveTracked => OneProcessPerName
  BY DEF LiveTracked, OneProcessPerName
<1> QED
  BY <1>1, Tracking, PTL

\* A live container whose network set-up reached its namespace keeps its link:
\* neither the clean-up of an earlier incarnation nor a set-up that fails takes it
\* (463-475, 480-500), for every way names may be cut, if no other name is cut to it.
THEOREM NetworkKept == Spec => []LiveKeepsNetwork
<1>1. IInv => LiveKeepsNetwork
  BY DEF IInv
<1> QED
  BY <1>1, Invariance, PTL

\* Once the last goroutine of a name is done, neither its interface nor its cgroup
\* is left, also when the limits were set half-way (463-475, 486-491).
THEOREM NoLeaks == Spec => []NothingLeaks
<1>1. IInv => NothingLeaks
  <2> SUFFICES ASSUME IInv, NEW n \in Names, ~Inherited(n),
                      \A p \in Pids : procs[p].name = n => waiter[p] = "none"
               PROVE  /\ \A p \in Pids : veth[LinkOf[n]] = p => procs[p].name # n
                      /\ n \notin cgroup
    BY DEF NothingLeaks
  <2>1. ASSUME NEW p \in Pids, veth[LinkOf[n]] = p, procs[p].name = n PROVE FALSE
    <3>1. LinkOf[n] \in Links /\ veth[LinkOf[n]] # NoPid
      BY <2>1, NullAssumption, ParamsAssumption
    <3>2. procs[p].st # "none" /\ procs[p].obj # NoObj => waiter[p] \in {"wait", "teardown"}
      BY <2>1, <3>1 DEF IInv, VethInv
    <3> QED
      BY <2>1, <3>1, <3>2 DEF Inherited, IInv, VethInv
  <2>2. n \notin cgroup
    BY DEF IInv, CgroupInv
  <2> QED
    BY <2>1, <2>2
<1> QED
  BY <1>1, Invariance, PTL

-----------------------------------------------------------------------------
\* What type correctness and the invariant say of the parts used below.
LEMMA Typed ==
  ASSUME IInv
  PROVE  /\ containers \in [Names -> Objs \cup {NoObj}] /\ heap \in [Objs -> Structs]
         /\ disk \in [Names -> Directories] /\ call \in [Callers -> Calls]
         /\ Main \in Callers /\ NoObj \notin Objs /\ NoName \notin Names
         /\ \A c \in Callers :
              /\ call[c] \in Calls
              /\ call[c].pc # "idle" => call[c].name \in Names
              /\ call[c].pc \in {"startMount", "startLaunch"} => call[c].obj \in Objs
         /\ \A n \in Names : disk[n] \in Directories
         /\ \A n \in Names : Exists(n) => containers[n] \in Objs
  BY NullAssumption, ParamsAssumption DEF IInv, TypeOK, CallInv, Exists

\* The steps of an operation keep its name, or end it.
LEMMA Going ==
  ASSUME IInv, NEW c \in Callers, NEW pc, Goto(c, pc)
  PROVE  /\ call'[c] = [call[c] EXCEPT !.pc = pc] /\ call'[c].pc = pc
         /\ call'[c].name = call[c].name /\ call'[c].params = call[c].params
         /\ call'[c].obj = call[c].obj
         /\ \A b \in Callers \ {c} : call'[b] = call[b]
<1>1. call \in [Callers -> Calls] /\ call[c] \in Calls
  BY Typed
<1> QED
  BY <1>1 DEF Goto, Calls

LEMMA Ending ==
  ASSUME IInv, NEW c \in Callers, Return(c)
  PROVE  /\ call'[c] = Idle /\ call'[c].pc = "idle" /\ call'[c].name = NoName
         /\ \A b \in Callers \ {c} : call'[b] = call[b]
<1>1. call \in [Callers -> Calls]
  BY Typed
<1> QED
  BY <1>1 DEF Return, Idle

\* A rootfs directory is changed, and nothing else on the disk.
LEMMA RootfsSet ==
  ASSUME IInv, NEW n \in Names, NEW r, disk' = [disk EXCEPT ![n].rootfs = r]
  PROVE  /\ disk'[n].rootfs = r /\ disk'[n].config = disk[n].config
         /\ \A k \in Names : disk'[k].config = disk[k].config
         /\ \A k \in Names \ {n} : disk'[k] = disk[k]
<1>1. disk \in [Names -> Directories]
  BY Typed
<1> QED
  BY <1>1 DEF Directories

\* What loadConfigs makes of the directories d.
LEMMA LoadedMap ==
  ASSUME NEW d \in [Names -> Directories], Loaded(d), NEW n \in Names
  PROVE  /\ containers'[n] # NoObj <=> Restorable(d[n])
         /\ Restorable(d[n]) => /\ heap'[containers'[n]].status = "stopped"
                                /\ heap'[containers'[n]].params = d[n].config
<1> DEFINE found == {m \in Names : Restorable(d[m])}
           owner(f, o) == CHOOSE m \in found : f[m] = o
           struct(f, o) == [status |-> "stopped", name |-> owner(f, o),
                            params |-> d[owner(f, o)].config, pid |-> NoPid]
<1>1. PICK f \in [found -> Objs] :
        /\ \A k, m \in found : f[k] = f[m] => k = m
        /\ containers' = [m \in Names |-> IF m \in found THEN f[m] ELSE NoObj]
        /\ heap' = [o \in Objs |-> IF \E m \in found : f[m] = o
                                    THEN struct(f, o) ELSE Free]
  BY DEF Loaded
<1>2. CASE n \in found
  <2>1. owner(f, f[n]) \in found /\ f[owner(f, f[n])] = f[n]
    BY <1>2
  <2>2. owner(f, f[n]) = n
    BY <1>1, <1>2, <2>1
  <2>3. f[n] \in Objs /\ containers'[n] = f[n] /\ heap'[f[n]] = struct(f, f[n])
    BY <1>1, <1>2
  <2>4. /\ struct(f, f[n]).status = "stopped"
        /\ struct(f, f[n]).params = d[n].config
    BY <2>2
  <2> HIDE DEF struct
  <2> QED
    BY <1>2, <2>3, <2>4, NullAssumption
<1>3. CASE n \notin found
  BY <1>1, <1>3
<1> QED
  BY <1>2, <1>3

-----------------------------------------------------------------------------
\* A creation carries the parameters of a request.
Asked ==
    \A c \in Callers :
        call[c].pc \in {"createPrep", "createCommit"} => call[c].params \in Params

\* A struct in the map is in use.
StatusInv ==
    \A n \in Names : Exists(n) =>
        heap[containers[n]].status \in {"created", "running", "stopped"}

BaseInv == IInv /\ Asked /\ StatusInv

\* What becomes of the structs: a step but Create's and a restart keeps their
\* parameters and takes none out of use.
InUse ==
    \A o \in Objs : /\ heap'[o].params = heap[o].params
                    /\ heap'[o].status \in {heap[o].status, "running", "stopped"}

\* The steps of goroutines and processes touch neither the map nor the disk, and no
\* operation.
LEMMA AsideStep ==
  ASSUME IInv, NEW p \in Pids, Waiter(p) \/ Killer(p) \/ Exit(p)
  PROVE  /\ UNCHANGED <<containers, disk, call>>
         /\ \A o \in Objs : /\ heap'[o].params = heap[o].params
                            /\ heap'[o].status \in {heap[o].status, "stopped"}
<1>1. UNCHANGED <<containers, disk, call>>
  BY DEF Waiter, Killer, Exit, WaiterReap, WaiterTeardown, WaiterCleanup,
         WaiterPublish, KillerCheck, KillerKill, goVars
<1>2. CASE UNCHANGED heap
  BY <1>1, <1>2
<1>3. CASE WaiterPublish(p)
  <2> SUFFICES ASSUME NEW o \in Objs
               PROVE  /\ heap'[o].params = heap[o].params
                      /\ heap'[o].status \in {heap[o].status, "stopped"}
    BY <1>1
  <2>1. heap \in [Objs -> Structs] /\ heap[o] \in Structs
    BY Typed
  <2>2. heap' = [heap EXCEPT ![procs[p].obj].status = "stopped",
                             ![procs[p].obj].pid = NoPid]
    BY <1>3 DEF WaiterPublish
  <2>3. CASE o = procs[p].obj
    BY <2>1, <2>2, <2>3 DEF Structs
  <2>4. CASE o # procs[p].obj
    BY <2>1, <2>2, <2>4
  <2> QED
    BY <2>3, <2>4
<1> QED
  BY <1>2, <1>3 DEF Waiter, Killer, Exit, WaiterReap, WaiterTeardown,
     WaiterCleanup, KillerCheck, KillerKill, goVars

\* A start leaves the structs but its own as they were.
LEMMA LaunchStep ==
  ASSUME IInv, NEW c \in Callers, StartLaunch(c)
  PROVE  /\ UNCHANGED containers /\ Return(c)
         /\ \A o \in Objs :
              /\ heap'[o].params = heap[o].params
              /\ \/ heap'[o].status = heap[o].status
                 \/ o = call[c].obj /\ heap'[o].status = "running"
<1> DEFINE x == call[c].obj
<1>1. x \in Objs /\ heap \in [Objs -> Structs]
  BY Typed DEF StartLaunch
<1>2. UNCHANGED heap
        \/ \E p \in Pids : heap' = [heap EXCEPT ![x].status = "running", ![x].pid = p]
  BY DEF StartLaunch, Launch
<1>3. ASSUME NEW o \in Objs
      PROVE  /\ heap'[o].params = heap[o].params
             /\ \/ heap'[o].status = heap[o].status
                \/ o = x /\ heap'[o].status = "running"
  <2>1. heap[o] \in Structs
    BY <1>1
  <2>2. CASE o = x
    <3>1. CASE UNCHANGED heap
      BY <3>1
    <3>2. ASSUME NEW p \in Pids, heap' = [heap EXCEPT ![x].status = "running", ![x].pid = p]
          PROVE  heap'[x].params = heap[x].params /\ heap'[x].status = "running"
      BY <1>1, <2>1, <2>2, <3>2 DEF Structs
    <3> QED
      BY <1>2, <2>2, <3>1, <3>2
  <2>3. CASE o # x
    BY <1>1, <1>2, <2>3
  <2> QED
    BY <2>2, <2>3
<1> QED
  BY <1>3 DEF StartLaunch

\* A request is noted, or refused, under the mutex; Remove takes its container out
\* of the map.
LEMMA RequestStep ==
  ASSUME IInv, NEW c \in Callers, NEW n \in Names, Request(c, n)
  PROVE  /\ call[c] = Idle /\ call[c].pc = "idle" /\ call[c].name = NoName
         /\ UNCHANGED <<heap, disk>> /\ call'[c].name = n
         /\ \A b \in Callers \ {c} : call'[b] = call[b]
         /\ \/ /\ call'[c].pc = "createPrep" /\ call'[c].params \in Params
               /\ ~Exists(n) /\ UNCHANGED containers
            \/ /\ call'[c].pc = "startMount" /\ call'[c].obj = containers[n]
               /\ Exists(n) /\ UNCHANGED containers
            \/ call'[c].pc = "stopSignal" /\ Exists(n) /\ UNCHANGED containers
            \/ /\ call'[c].pc = "removeUnmount" /\ Exists(n)
               /\ containers' = [containers EXCEPT ![n] = NoObj]
<1> USE Typed
<1>1. ASSUME NEW prm \in Params, CreateCheck(c, n, prm)
      PROVE  /\ call[c] = Idle /\ UNCHANGED <<containers, heap, disk>> /\ ~Exists(n)
             /\ call'[c].name = n /\ call'[c].pc = "createPrep" /\ call'[c].params = prm
             /\ \A b \in Callers \ {c} : call'[b] = call[b]
  BY <1>1 DEF CreateCheck, Ready, Idle
<1>2. CASE Start(c, n)
  <2>1. /\ call[c] = Idle /\ UNCHANGED <<containers, heap, disk>> /\ Exists(n)
        /\ call'[c].name = n /\ call'[c].pc = "startMount"
        /\ call'[c].obj = containers[n]
        /\ \A b \in Callers \ {c} : call'[b] = call[b]
    BY <1>2 DEF Start, StartCheck, Ready, Idle
  <2> QED
    BY <2>1 DEF Idle
<1>3. CASE StopCheck(c, n)
  <2>1. /\ call[c] = Idle /\ UNCHANGED <<containers, heap, disk>> /\ Exists(n)
        /\ call'[c].name = n /\ call'[c].pc = "stopSignal"
        /\ \A b \in Callers \ {c} : call'[b] = call[b]
    BY <1>3 DEF StopCheck, Ready, Idle
  <2> QED
    BY <2>1 DEF Idle
<1>4. CASE RemoveCheck(c, n)
  <2>1. /\ call[c] = Idle /\ UNCHANGED <<heap, disk>> /\ Exists(n)
        /\ call'[c].name = n /\ call'[c].pc = "removeUnmount"
        /\ \A b \in Callers \ {c} : call'[b] = call[b]
        /\ containers' = [containers EXCEPT ![n] = NoObj]
    BY <1>4 DEF RemoveCheck, MayRemove, Ready, Idle
  <2> QED
    BY <2>1 DEF Idle
<1>5. Idle.pc = "idle" /\ Idle.name = NoName
  BY DEF Idle
<1> QED
  BY <1>1, <1>2, <1>3, <1>4, <1>5 DEF Request

\* So is a start by autoRestart.
LEMMA AutoStep ==
  ASSUME IInv, NEW n \in Names, AutoStart(n)
  PROVE  /\ call[Main] = Idle /\ call[Main].name = NoName
         /\ UNCHANGED <<containers, heap, disk>> /\ Exists(n)
         /\ call'[Main].name = n /\ call'[Main].pc = "startMount"
         /\ call'[Main].obj = containers[n]
         /\ \A b \in Callers \ {Main} : call'[b] = call[b]
  BY Typed DEF AutoStart, StartCheck, Idle

\* Both kinds of restart load the directories, of which the rootfs, if an image was
\* mounted on it, may be bare.
LEMMA RestartLoads ==
  ASSUME IInv, VmRestart \/ AgentRestart
  PROVE  \E d \in [Names -> Directories] :
            /\ Loaded(d) /\ disk' = d /\ call' = [c \in Callers |-> Idle]
            /\ \A n \in Names : /\ d[n].config = disk[n].config
                                /\ d[n].rootfs = Absent <=> disk[n].rootfs = Absent
<1> DEFINE d == [n \in Names |-> [disk[n] EXCEPT !.rootfs = Unmounted(@)]]
<1> USE Typed, NullAssumption
<1>1. CASE AgentRestart
  <2>1. Loaded(disk)
    BY <1>1 DEF AgentRestart
  <2>2. disk' = disk /\ call' = [c \in Callers |-> Idle]
    BY <2>1 DEF Loaded
  <2> QED
    BY <2>1, <2>2
<1>2. CASE VmRestart
  <2>1. ASSUME NEW n \in Names
        PROVE  /\ d[n] \in Directories /\ d[n].config = disk[n].config
               /\ d[n].rootfs = Absent <=> disk[n].rootfs = Absent
    BY DEF Directories, Unmounted
  <2>2. d \in [Names -> Directories]
    BY <2>1
  <2>3. Loaded(d)
    BY <1>2 DEF VmRestart
  <2>4. disk' = d /\ call' = [c \in Callers |-> Idle]
    BY <2>3 DEF Loaded
  <2> HIDE DEF d
  <2> QED
    BY <2>1, <2>2, <2>3, <2>4
<1> QED
  BY <1>1, <1>2

\* No step makes a creation of other parameters than a request's.
LEMMA NextAsked == ASSUME IInv, Asked, [Next]_vars PROVE Asked'
<1> USE Typed
<1>1. ASSUME NEW c \in Callers, Continue(c) PROVE Asked'
  <2>1. CASE Return(c)
    <3>1. call'[c].pc = "idle" /\ \A b \in Callers \ {c} : call'[b] = call[b]
      BY <2>1, Ending
    <3> QED
      BY <3>1 DEF Asked
  <2>2. ASSUME NEW pc \in {"createCommit", "startLaunch", "removeFiles"}, Goto(c, pc),
               pc = "createCommit" => call[c].pc = "createPrep"
        PROVE  Asked'
    <3>1. /\ call'[c].pc = pc /\ call'[c].params = call[c].params
          /\ \A b \in Callers \ {c} : call'[b] = call[b]
      BY <2>2, Going
    <3> QED
      BY <2>2, <3>1 DEF Asked
  <2>3. CASE UNCHANGED call
    BY <2>3 DEF Asked
  <2> QED
    BY <1>1, <2>1, <2>2, <2>3 DEF Continue, CreatePrep, CreateCommit, StartMount,
       StartLaunch, StopSignal, RemoveUnmount, RemovePart, RemoveReturn, goVars
<1>2. ASSUME NEW c \in Callers, NEW n \in Names, Request(c, n) PROVE Asked'
  BY <1>2, RequestStep DEF Asked
<1>3. ASSUME NEW p \in Pids, Waiter(p) \/ Killer(p) \/ Exit(p) PROVE Asked'
  BY <1>3, AsideStep DEF Asked
<1>4. CASE Serve \/ UNCHANGED vars
  BY <1>4 DEF Asked, Serve, goVars, vars
<1>5. ASSUME NEW n \in Names, AutoStart(n) PROVE Asked'
  BY <1>5, AutoStep DEF Asked
<1>6. CASE VmRestart \/ AgentRestart
  <2>1. call' = [c \in Callers |-> Idle]
    BY <1>6, RestartLoads
  <2> QED
    BY <2>1 DEF Asked, Idle
<1> QED
  BY <1>1, <1>2, <1>3, <1>4, <1>5, <1>6 DEF Next, Boot

\* No step takes a struct of the map out of use.
LEMMA NextStatus == ASSUME IInv, StatusInv, [Next]_vars PROVE StatusInv'
<1> USE Typed, NullAssumption
<1>1. ASSUME \A n \in Names : Exists(n)' => Exists(n) /\ containers'[n] = containers[n],
             InUse
      PROVE  StatusInv'
  BY <1>1 DEF StatusInv, InUse
<1>2. ASSUME NEW c \in Callers, Continue(c) PROVE StatusInv'
  <2>1. CASE UNCHANGED <<containers, heap>>
    BY <1>1, <2>1 DEF InUse, Exists
  <2>2. CASE StartLaunch(c)
    BY <1>1, <2>2, LaunchStep DEF InUse, Exists
  <2>3. CASE CreateCommit(c) /\ ~UNCHANGED <<containers, heap>>
    <3>1. PICK o \in Objs, prm \in Params \cup {NoConfig} :
            /\ Garbage(o)
            /\ heap' = [heap EXCEPT ![o] = [status |-> "created", name |-> call[c].name,
                                            params |-> prm, pid |-> NoPid]]
            /\ containers' = [containers EXCEPT ![call[c].name] = o]
      BY <2>3 DEF CreateCommit, Calls
    <3>2. heap'[o].status = "created" /\ \A x \in Objs \ {o} : heap'[x] = heap[x]
      BY <3>1
    <3>3. ASSUME NEW n \in Names, Exists(n)'
          PROVE  heap'[containers'[n]].status \in {"created", "running", "stopped"}
      <4>1. CASE n = call[c].name
        BY <3>1, <3>2, <4>1
      <4>2. CASE n # call[c].name
        BY <3>1, <3>2, <3>3, <4>2 DEF StatusInv, Exists, Garbage
      <4> QED
        BY <4>1, <4>2
    <3> QED
      BY <3>3 DEF StatusInv
  <2> QED
    BY <1>2, <2>1, <2>2, <2>3 DEF Continue, CreatePrep, CreateCommit, StartMount,
       StopSignal, RemoveUnmount, RemovePart, RemoveReturn, goVars
<1>3. ASSUME NEW c \in Callers, NEW n \in Names, Request(c, n) PROVE StatusInv'
  <2>1. UNCHANGED heap /\ (UNCHANGED containers
                             \/ containers' = [containers EXCEPT ![n] = NoObj])
    BY <1>3, RequestStep
  <2> QED
    BY <1>1, <2>1 DEF InUse, Exists
<1>4. ASSUME NEW p \in Pids, Waiter(p) \/ Killer(p) \/ Exit(p) PROVE StatusInv'
  BY <1>1, <1>4, AsideStep DEF InUse, Exists
<1>5. ASSUME NEW n \in Names, Serve \/ UNCHANGED vars \/ AutoStart(n) PROVE StatusInv'
  BY <1>1, <1>5 DEF InUse, Exists, Serve, goVars, vars, AutoStart
<1>6. CASE VmRestart \/ AgentRestart
  <2>1. PICK d \in [Names -> Directories] : Loaded(d)
    BY <1>6, RestartLoads
  <2> QED
    BY <2>1, LoadedMap DEF StatusInv, Exists
<1> QED
  BY <1>2, <1>3, <1>4, <1>5, <1>6 DEF Next, Boot, StatusInv

\* All this holds whatever the agent is deployed with.
LEMMA BaseInvariance == Spec => []BaseInv
<1>1. Init => BaseInv
  BY InitInv, NullAssumption DEF Init, BaseInv, Asked, StatusInv, Idle, Exists
<1>2. BaseInv /\ [Next]_vars => BaseInv'
  BY NextInv, NextAsked, NextStatus DEF BaseInv
<1> QED
  BY <1>1, <1>2, PTL DEF Spec

-----------------------------------------------------------------------------
\* Removal, by any number of callers, with restarts of either kind: writes succeed,
\* images are overlay mounts, and no creation is refused at its end.
Clears ==
    /\ OverlayFS /\ ~DiskFaults
    /\ \A prm \in Params : prm.restart \in Policies

\* Operations on n under way.
Removing(n) ==
    \E c \in Callers : call[c].name = n /\ call[c].pc \in {"removeUnmount", "removeFiles"}
Mounting(n) == \E c \in Callers : call[c].name = n /\ call[c].pc = "startMount"
Committing(n) == \E c \in Callers : call[c].name = n /\ call[c].pc = "createCommit"

\* A configuration left behind by no container is being removed; or a restart cut its
\* removal short, its rootfs is gone and only a creation that will end well brings
\* one back: whoever was starting the container was before the restart.
Swept(n) ==
    ~Exists(n) /\ disk[n].config # NoConfig =>
        \/ Removing(n)
        \/ /\ ~Mounting(n)
           /\ \/ disk[n].rootfs = Absent
              \/ Committing(n)

SweepInv == BaseInv /\ \A n \in Names : Swept(n)

\* A caller's step is about one name.
LEMMA SweptElse ==
  ASSUME SweepInv, NEW c \in Callers, NEW n \in Names,
         \A b \in Callers \ {c} : call'[b] = call[b],
         call[c].name \in {n, NoName}, call'[c].name \in {n, NoName},
         \A k \in Names \ {n} : containers'[k] = containers[k] /\ disk'[k] = disk[k],
         Swept(n)'
  PROVE  \A k \in Names : Swept(k)'
<1> SUFFICES ASSUME NEW k \in Names, k # n PROVE Swept(k)'
  OBVIOUS
<1>1. /\ Removing(k)' <=> Removing(k)
      /\ Mounting(k)' <=> Mounting(k)
      /\ Committing(k)' <=> Committing(k)
  BY NullAssumption DEF Removing, Mounting, Committing, SweepInv, BaseInv
<1>2. Swept(k) /\ (Exists(k)' <=> Exists(k)) /\ disk'[k] = disk[k]
  BY DEF SweepInv, Exists
<1> QED
  BY <1>1, <1>2 DEF Swept

\* A request, or the end of an operation, of a container that the map holds.
LEMMA SweptKnown ==
  ASSUME SweepInv, NEW c \in Callers, NEW n \in Names,
         \A b \in Callers \ {c} : call'[b] = call[b],
         call[c].name \in {n, NoName}, call'[c].name \in {n, NoName},
         \A k \in Names \ {n} : containers'[k] = containers[k] /\ disk'[k] = disk[k],
         Exists(n)'
  PROVE  \A k \in Names : Swept(k)'
<1>1. Swept(n)'
  BY DEF Swept
<1> QED
  BY <1>1, SweptElse

\* A request leaves no litter: Remove has its own under way.
LEMMA RequestSwept ==
  ASSUME SweepInv, NEW c \in Callers, NEW n \in Names, Request(c, n)
  PROVE  \A k \in Names : Swept(k)'
<1> USE Typed, NullAssumption DEF SweepInv, BaseInv
<1>1. /\ call[c].pc = "idle" /\ call[c].name = NoName /\ UNCHANGED disk
      /\ call'[c].name = n /\ \A b \in Callers \ {c} : call'[b] = call[b]
  BY RequestStep
<1>2. CASE call'[c].pc = "createPrep" /\ UNCHANGED containers
  <2>1. /\ Removing(n) => Removing(n)'
        /\ Committing(n) => Committing(n)'
        /\ Mounting(n)' => Mounting(n)
    BY <1>1, <1>2 DEF Removing, Mounting, Committing
  <2>2. Swept(n)'
    BY <1>1, <1>2, <2>1 DEF Swept, Exists
  <2> QED
    BY <1>1, <1>2, <2>2, SweptElse
<1>3. CASE Exists(n) /\ UNCHANGED containers
  BY <1>1, <1>3, SweptKnown DEF Exists
<1>4. CASE /\ call'[c].pc = "removeUnmount"
           /\ containers' = [containers EXCEPT ![n] = NoObj]
  <2>1. Swept(n)'
    BY <1>1, <1>4 DEF Swept, Removing
  <2> QED
    BY <1>1, <1>4, <2>1, SweptElse
<1> QED
  BY <1>2, <1>3, <1>4, RequestStep

\* A creation brings a rootfs only on its way to the end.
LEMMA CreatePrepSwept ==
  ASSUME Clears, SweepInv, NEW c \in Callers, CreatePrep(c)
  PROVE  \A k \in Names : Swept(k)'
<1> USE Typed, NullAssumption DEF SweepInv, BaseInv
<1>1. PICK n \in Names :
         n = call[c].name /\ call[c].pc = "createPrep" /\ UNCHANGED containers
  BY DEF CreatePrep
<1>2. ASSUME Goto(c, "createCommit"),
             UNCHANGED disk \/ \E r : disk' = [disk EXCEPT ![n].rootfs = r]
      PROVE  \A k \in Names : Swept(k)'
  <2>1. /\ call'[c].pc = "createCommit" /\ call'[c].name = n
        /\ \A b \in Callers \ {c} : call'[b] = call[b]
    BY <1>1, <1>2, Going
  <2>2. /\ disk'[n].config = disk[n].config
        /\ \A k \in Names \ {n} : disk'[k] = disk[k]
    BY <1>1, <1>2, RootfsSet
  <2>3. /\ Committing(n)'
        /\ Removing(n)
             => Removing(n)'
        /\ Mounting(n)' => Mounting(n)
    BY <1>1, <2>1 DEF Removing, Mounting, Committing
  <2>4. Swept(n)'
    BY <1>1, <2>2, <2>3 DEF Swept, Exists
  <2> QED
    BY <1>1, <2>1, <2>2, <2>4, SweptElse
<1>3. ASSUME Return(c), UNCHANGED disk PROVE \A k \in Names : Swept(k)'
  <2>1. /\ call'[c].pc = "idle" /\ call'[c].name = NoName
        /\ \A b \in Callers \ {c} : call'[b] = call[b]
    BY <1>3, Ending
  <2>2. /\ Removing(n) => Removing(n)'
        /\ Committing(n) => Committing(n)'
        /\ Mounting(n)' => Mounting(n)
    BY <1>1, <2>1 DEF Removing, Mounting, Committing
  <2>3. Swept(n)'
    BY <1>1, <1>3, <2>2 DEF Swept, Exists
  <2> QED
    BY <1>1, <1>3, <2>1, <2>3, SweptElse
<1> QED
  BY <1>1, <1>2, <1>3 DEF CreatePrep, Prepared, PrepareFailed, Clears

\* ... at which the map holds the name.
LEMMA CreateCommitSwept ==
  ASSUME Clears, SweepInv, NEW c \in Callers, CreateCommit(c)
  PROVE  \A k \in Names : Swept(k)'
<1> USE Typed, NullAssumption DEF SweepInv, BaseInv
<1>1. PICK n \in Names :
         /\ n = call[c].name /\ call[c].pc = "createCommit" /\ Return(c)
         /\ call[c].params.restart \in Policies
  BY DEF CreateCommit, Asked, Clears
<1>2. /\ call'[c].name = NoName /\ \A b \in Callers \ {c} : call'[b] = call[b]
  BY <1>1, Ending
<1>3. CASE Exists(n) /\ UNCHANGED <<containers, disk>>
  BY <1>1, <1>2, <1>3, SweptKnown DEF Exists
<1>4. CASE /\ \E o \in Objs : containers' = [containers EXCEPT ![n] = o]
           /\ UNCHANGED disk \/ \E prm : disk' = [disk EXCEPT ![n].config = prm]
  <2>1. Exists(n)' /\ \A k \in Names \ {n} : containers'[k] = containers[k]
    BY <1>1, <1>4 DEF Exists
  <2>2. \A k \in Names \ {n} : disk'[k] = disk[k]
    BY <1>1, <1>4
  <2> QED
    BY <1>1, <1>2, <2>1, <2>2, SweptKnown
<1> QED
  BY <1>1, <1>3, <1>4 DEF CreateCommit, SavedConfig, Clears

\* Nobody starts what was left behind, so that starting brings no rootfs back.
LEMMA StartSwept ==
  ASSUME Clears, SweepInv, NEW c \in Callers, StartMount(c) \/ StartLaunch(c)
  PROVE  \A k \in Names : Swept(k)'
<1> USE Typed, NullAssumption DEF SweepInv, BaseInv
<1>1. PICK n \in Names :
         /\ n = call[c].name /\ call[c].pc \in {"startMount", "startLaunch"}
         /\ UNCHANGED containers
  BY DEF StartMount, StartLaunch
<1>2. /\ \A b \in Callers \ {c} : call'[b] = call[b]
      /\ call'[c].name \in {n, NoName} /\ call'[c].pc \in {"startLaunch", "idle"}
  BY <1>1, Going, Ending DEF StartMount, StartLaunch
<1>3. /\ Removing(n) => Removing(n)'
      /\ Committing(n) => Committing(n)'
      /\ Mounting(n)' => Mounting(n)
  BY <1>1, <1>2 DEF Removing, Mounting, Committing
<1>4. UNCHANGED disk \/ \E r : disk' = [disk EXCEPT ![n].rootfs = r]
  BY <1>1 DEF StartMount, StartLaunch, Prepared, PrepareFailed, RootfsTouched
<1>5. /\ disk'[n].config = disk[n].config
      /\ \A k \in Names \ {n} : disk'[k] = disk[k]
  BY <1>1, <1>4, RootfsSet
<1>6. Swept(n)'
  <2>1. CASE StartMount(c)
    <3>1. Mounting(n)
      BY <1>1, <2>1 DEF StartMount, Mounting
    <3> QED
      BY <1>1, <1>3, <1>5, <3>1 DEF Swept, Exists
  <2>2. CASE StartLaunch(c)
    <3>1. Exists(n) \/ UNCHANGED disk
      BY <1>1, <2>2 DEF StartLaunch, StartMayLaunch, Exists
    <3> QED
      BY <1>1, <1>3, <3>1 DEF Swept, Exists
  <2> QED
    BY <2>1, <2>2
<1> QED
  BY <1>1, <1>2, <1>5, <1>6, SweptElse

\* A removal ends when nothing is left.
LEMMA RemovalSwept ==
  ASSUME Clears, SweepInv, NEW c \in Callers,
         RemoveUnmount(c) \/ RemovePart(c) \/ RemoveReturn(c)
  PROVE  \A k \in Names : Swept(k)'
<1> USE Typed, NullAssumption DEF SweepInv, BaseInv
<1>1. PICK n \in Names :
      /\ n = call[c].name /\ call[c].pc \in {"removeUnmount", "removeFiles"}
      /\ UNCHANGED containers /\ \A k \in Names \ {n} : disk'[k] = disk[k]
  BY DEF RemoveUnmount, RemovePart, RemoveReturn, goVars
<1>2. CASE RemoveReturn(c)
  <2>1. /\ call'[c].name = NoName /\ \A b \in Callers \ {c} : call'[b] = call[b]
    BY <1>2, Ending DEF RemoveReturn
  <2>2. disk'[n] = NoDir
    BY <1>1, <1>2 DEF RemoveReturn, Deleted, Clears
  <2>3. Swept(n)'
    BY <2>2 DEF Swept, NoDir
  <2> QED
    BY <1>1, <2>1, <2>3, SweptElse
<1>3. CASE RemoveUnmount(c) \/ RemovePart(c)
  <2>1. /\ call'[c].name = n /\ call'[c].pc = "removeFiles"
        /\ \A b \in Callers \ {c} : call'[b] = call[b]
    BY <1>1, <1>3, Going DEF RemoveUnmount, RemovePart, goVars
  <2>2. Swept(n)'
    BY <2>1 DEF Swept, Removing, Mounting, Committing
  <2> QED
    BY <1>1, <2>1, <2>2, SweptElse
<1> QED
  BY <1>2, <1>3

\* No step of any caller, and no restart, leaves litter.
LEMMA NextSwept == ASSUME Clears, SweepInv, [Next]_vars PROVE SweepInv'
<1> SUFFICES \A k \in Names : Swept(k)'
  BY NextInv, NextAsked, NextStatus DEF SweepInv, BaseInv
<1> USE Typed DEF SweepInv, BaseInv
<1>1. ASSUME UNCHANGED <<containers, disk, call>> PROVE \A k \in Names : Swept(k)'
  BY <1>1 DEF Swept, Removing, Mounting, Committing, Exists
<1>2. ASSUME NEW c \in Callers, StopSignal(c) PROVE \A k \in Names : Swept(k)'
  <2>1. PICK n \in Names :
        /\ n = call[c].name /\ call[c].pc = "stopSignal" /\ UNCHANGED <<containers, disk>>
        /\ call'[c].pc = "idle" /\ call'[c].name = NoName
        /\ \A b \in Callers \ {c} : call'[b] = call[b]
    BY <1>2, Ending DEF StopSignal
  <2>2. /\ Removing(n) => Removing(n)'
        /\ Committing(n) => Committing(n)'
        /\ Mounting(n)' => Mounting(n)
    BY <2>1 DEF Removing, Mounting, Committing
  <2>3. Swept(n)'
    BY <2>1, <2>2 DEF Swept, Exists
  <2> QED
    BY <2>1, <2>3, SweptElse
<1>3. ASSUME NEW c \in Callers, Continue(c) PROVE \A k \in Names : Swept(k)'
  BY <1>2, <1>3, CreatePrepSwept, CreateCommitSwept, StartSwept, RemovalSwept DEF Continue
<1>4. ASSUME NEW p \in Pids, Waiter(p) \/ Killer(p) \/ Exit(p)
      PROVE  \A k \in Names : Swept(k)'
  BY <1>1, <1>4, AsideStep
<1>5. CASE Serve \/ UNCHANGED vars
  BY <1>1, <1>5 DEF Serve, vars, goVars
<1>6. ASSUME NEW n \in Names, AutoStart(n) PROVE \A k \in Names : Swept(k)'
  BY <1>6, AutoStep, SweptKnown DEF Exists
<1>7. CASE VmRestart \/ AgentRestart
  <2>1. PICK d \in [Names -> Directories] :
           Loaded(d) /\ disk' = d /\ call' = [c \in Callers |-> Idle]
    BY <1>7, RestartLoads
  <2>3. ASSUME NEW k \in Names PROVE Exists(k)' <=> Restorable(disk'[k])
    BY <2>1, LoadedMap DEF Exists
  <2>4. ASSUME NEW k \in Names PROVE ~Removing(k)' /\ ~Mounting(k)' /\ ~Committing(k)'
    BY <2>1 DEF Removing, Mounting, Committing, Idle
  <2> QED
    BY <2>3, <2>4 DEF Swept, Restorable
<1> QED
  BY <1>3, <1>4, <1>5, <1>6, <1>7, RequestSwept DEF Next, Boot

\* What is removed stays away, whoever calls the manager meanwhile and whatever
\* restarts: a restart would bring back no container but those of the map and those
\* whose creation or removal is under way (300-371, 536-560).
THEOREM NoResurrection == ASSUME Clears PROVE Spec => []NoGhosts
<1>1. Init => SweepInv
  BY InitInv, NullAssumption
     DEF Init, SweepInv, BaseInv, Asked, StatusInv, Swept, Idle, Exists, NoDir
<1>2. SweepInv /\ [Next]_vars => SweepInv'
  BY NextSwept
<1>3. SweepInv => NoGhosts
  <2> SUFFICES ASSUME SweepInv, NEW n \in Names, Restorable(disk[n]), ~Exists(n)
               PROVE  \E c \in Callers : call[c].name = n
    BY DEF NoGhosts
  <2> QED
    BY DEF SweepInv, Swept, Restorable, Removing, Mounting, Committing
<1> QED
  BY <1>1, <1>2, <1>3, PTL DEF Spec

-----------------------------------------------------------------------------
\* One caller, as the agent has: nobody else changes what its operation found.
op == call[Main]

OpInv ==
    /\ op.pc \in {"createPrep", "createCommit", "removeUnmount", "removeFiles"}
          => ~Exists(op.name)
    /\ op.pc \in {"startMount", "startLaunch"} => containers[op.name] = op.obj
    /\ op.pc = "stopSignal" => Exists(op.name)

\* An operation ends, or goes on to a stage like the one it was in.
LEMMA OpGoes ==
  ASSUME IInv, OpInv, UNCHANGED containers, Callers = {Main},
         \/ Return(Main)
         \/ UNCHANGED call
         \/ op.pc = "createPrep" /\ Goto(Main, "createCommit")
         \/ op.pc = "startMount" /\ Goto(Main, "startLaunch")
         \/ op.pc = "removeUnmount" /\ Goto(Main, "removeFiles")
  PROVE  OpInv'
<1> USE Typed DEF op
<1>1. CASE Return(Main)
  <2>1. call'[Main].pc = "idle"
    BY <1>1, Ending
  <2> QED
    BY <2>1 DEF OpInv
<1>2. CASE UNCHANGED call
  BY <1>2 DEF OpInv, Exists
<1>3. ASSUME NEW pc, Goto(Main, pc),
             pc \in {"createCommit", "removeFiles"} => ~Exists(op.name),
             pc = "startLaunch" => containers[op.name] = op.obj,
             pc \in {"createCommit", "removeFiles", "startLaunch"}
      PROVE  OpInv'
  <2>1. call'[Main].pc = pc /\ call'[Main].name = op.name /\ call'[Main].obj = op.obj
    BY <1>3, Going
  <2> QED
    BY <1>3, <2>1 DEF OpInv, Exists
<1> QED
  BY <1>1, <1>2, <1>3 DEF OpInv

\* No step of another changes what the operation found.
LEMMA NextOp == ASSUME Callers = {Main}, IInv, OpInv, [Next]_vars PROVE OpInv'
<1> USE Typed
<1>1. CASE Continue(Main)
  <2>1. CASE CreateCommit(Main)
    <3>1. call'[Main].pc = "idle"
      BY <2>1, Ending DEF CreateCommit
    <3> QED
      BY <3>1 DEF OpInv, op
  <2>2. CASE ~CreateCommit(Main)
    <3>1. UNCHANGED containers
      BY <1>1, <2>2 DEF Continue, CreatePrep, StartMount, StartLaunch, StopSignal,
         RemoveUnmount, RemovePart, RemoveReturn, goVars
    <3>2. \/ Return(Main)
          \/ UNCHANGED call
          \/ op.pc = "createPrep" /\ Goto(Main, "createCommit")
          \/ op.pc = "startMount" /\ Goto(Main, "startLaunch")
          \/ op.pc = "removeUnmount" /\ Goto(Main, "removeFiles")
      BY <1>1, <2>2 DEF Continue, CreatePrep, StartMount, StartLaunch, StopSignal,
         RemoveUnmount, RemovePart, RemoveReturn, goVars, op
    <3> QED
      BY <3>1, <3>2, OpGoes
  <2> QED
    BY <2>1, <2>2
<1>2. ASSUME NEW n \in Names, Request(Main, n) PROVE OpInv'
  BY <1>2, RequestStep DEF OpInv, op, Exists
<1>3. ASSUME NEW p \in Pids, Waiter(p) \/ Killer(p) \/ Exit(p) PROVE OpInv'
  BY <1>3, AsideStep DEF OpInv, op, Exists
<1>4. CASE Serve \/ UNCHANGED vars
  BY <1>4 DEF OpInv, op, Exists, Serve, goVars, vars
<1>5. ASSUME NEW n \in Names, AutoStart(n) PROVE OpInv'
  BY <1>5, AutoStep DEF OpInv, op, Exists
<1>6. CASE VmRestart \/ AgentRestart
  <2>1. call' = [c \in Callers |-> Idle]
    BY <1>6, RestartLoads
  <2> QED
    BY <2>1 DEF OpInv, op, Idle
<1> QED
  BY <1>1, <1>2, <1>3, <1>4, <1>5, <1>6 DEF Next, Boot

-----------------------------------------------------------------------------
\* What is acknowledged, with restarts of either kind, copied or mounted images and
\* requests that are refused: writes succeed, and a container's rootfs is in its
\* directory.
Saves ==
    /\ Callers = {Main} /\ ~DiskFaults
    /\ \A prm \in Params : prm.src # External

SavedInv ==
    /\ BaseInv /\ OpInv /\ Durable
    /\ op.pc = "createCommit" => disk[op.name].rootfs # Absent

\* Most steps commit nothing and lose nothing.
LEMMA SavedKept ==
  ASSUME Saves, SavedInv,
         \A n \in Names : Exists(n)' => Exists(n) /\ containers'[n] = containers[n],
         \A o \in Objs : heap'[o].params = heap[o].params,
         \A n \in Names :
            disk'[n].config = disk[n].config
              /\ (disk'[n].rootfs = Absent => disk[n].rootfs = Absent),
         op'.pc = "createCommit" => op' = op
  PROVE  Durable' /\ (op'.pc = "createCommit" => disk'[op'.name].rootfs # Absent)
<1> USE Typed DEF SavedInv, BaseInv
<1>1. Durable'
  BY DEF Durable, Restorable
<1>2. op'.pc = "createCommit" => disk'[op'.name].rootfs # Absent
  BY DEF op
<1> QED
  BY <1>1, <1>2

\* A rootfs is set, and not to nothing.
LEMMA RootfsKept ==
  ASSUME IInv, NEW n \in Names, NEW r, r # Absent,
         UNCHANGED disk \/ disk' = [disk EXCEPT ![n].rootfs = r]
  PROVE  \A k \in Names : /\ disk'[k].config = disk[k].config
                          /\ disk'[k].rootfs = Absent => disk[k].rootfs = Absent
  BY RootfsSet

\* A creation goes on to its end only with a rootfs.
LEMMA CreatePrepSaved ==
  ASSUME Saves, SavedInv, CreatePrep(Main)
  PROVE  Durable' /\ (op'.pc = "createCommit" => disk'[op'.name].rootfs # Absent)
<1> USE Typed, NullAssumption DEF SavedInv, BaseInv
<1>1. PICK n \in Names :
         /\ n = op.name /\ op.pc = "createPrep" /\ UNCHANGED <<containers, heap>>
         /\ op.params \in Params
  BY DEF CreatePrep, Asked, op
<1>2. \E r : /\ r # Absent
             /\ UNCHANGED disk \/ disk' = [disk EXCEPT ![n].rootfs = r]
  BY <1>1 DEF CreatePrep, Prepared, PrepareFailed, HasBin, op
<1>3. \A k \in Names : /\ disk'[k].config = disk[k].config
                       /\ disk'[k].rootfs = Absent => disk[k].rootfs = Absent
  BY <1>2, RootfsKept
<1>4. CASE Return(Main)
  <2>1. op'.pc # "createCommit"
    BY <1>4, Ending DEF op
  <2> QED
    BY <1>1, <1>3, <2>1, SavedKept DEF Exists
<1>5. CASE Goto(Main, "createCommit")
  <2>1. call'[Main].pc = "createCommit" /\ call'[Main].name = n
    BY <1>1, <1>5, Going DEF op
  <2>2. ~Return(Main)
    BY <2>1, Ending
  <2>3. disk'[n].rootfs # Absent
    <3>1. CASE op.params.src \in Images /\ Prepared(n, op.params.src)
      <4>1. PICK r : r # Absent /\ disk' = [disk EXCEPT ![n].rootfs = r]
        BY <1>1, <3>1 DEF Prepared, HasBin
      <4> QED
        BY <4>1, RootfsSet
    <3>2. CASE op.params.src = Existing /\ UNCHANGED disk
      BY <1>1, <2>2, <3>2 DEF CreatePrep, op
    <3> QED
      BY <1>1, <2>2, <3>1, <3>2 DEF CreatePrep, Saves, op
  <2>4. Durable'
    BY <1>1, <1>3 DEF Durable, Restorable, Exists
  <2> QED
    BY <2>1, <2>3, <2>4 DEF op
<1> QED
  BY <1>4, <1>5 DEF CreatePrep

\* It commits its parameters to the map and to the disk.
LEMMA CreateCommitSaved ==
  ASSUME Saves, SavedInv, CreateCommit(Main)
  PROVE  Durable' /\ (op'.pc = "createCommit" => disk'[op'.name].rootfs # Absent)
<1> USE Typed, NullAssumption DEF SavedInv, BaseInv
<1>1. PICK n \in Names : n = op.name /\ op.pc = "createCommit" /\ Return(Main)
  BY DEF CreateCommit, op
<1>2. op'.pc # "createCommit"
  BY <1>1, Ending DEF op
<1>3. CASE UNCHANGED <<containers, heap, disk>>
  BY <1>2, <1>3, SavedKept DEF Exists
<1>4. ASSUME NEW o \in Objs, Garbage(o),
             heap' = [heap EXCEPT ![o] = [status |-> "created", name |-> n,
                                          params |-> op.params, pid |-> NoPid]],
             containers' = [containers EXCEPT ![n] = o],
             disk' = [disk EXCEPT ![n].config = op.params]
      PROVE  Durable'
  <2>1. /\ containers'[n] = o /\ heap'[o].params = op.params
        /\ disk'[n].config = op.params /\ disk'[n].rootfs = disk[n].rootfs
    BY <1>4 DEF Directories
  <2>2. op.params # NoConfig /\ disk[n].rootfs # Absent
    BY <1>1 DEF Asked, op
  <2>3. ASSUME NEW k \in Names \ {n}
        PROVE  /\ containers'[k] = containers[k] /\ disk'[k] = disk[k]
               /\ Exists(k) => heap'[containers[k]] = heap[containers[k]]
    BY <1>4 DEF Garbage, Exists
  <2> QED
    BY <2>1, <2>2, <2>3 DEF Durable, Restorable, Exists
<1> QED
  BY <1>1, <1>2, <1>3, <1>4 DEF CreateCommit, SavedConfig, Saves, op

\* No step loses what was acknowledged.
LEMMA NextSaved == ASSUME Saves, SavedInv, [Next]_vars PROVE SavedInv'
<1> SUFFICES Durable' /\ (op'.pc = "createCommit" => disk'[op'.name].rootfs # Absent)
  BY NextInv, NextAsked, NextStatus, NextOp DEF SavedInv, BaseInv, Saves
<1> USE Typed, NullAssumption DEF SavedInv, BaseInv
<1>1. CASE StartMount(Main) \/ StartLaunch(Main) \/ StopSignal(Main) \/ RemoveReturn(Main)
  <2>1. /\ UNCHANGED containers
        /\ \A o \in Objs : heap'[o].params = heap[o].params
    BY <1>1, LaunchStep DEF StartMount, StopSignal, RemoveReturn
  <2>2. op'.pc # "createCommit"
    <3>1. Return(Main) \/ Goto(Main, "startLaunch")
      BY <1>1 DEF StartMount, StartLaunch, StopSignal, RemoveReturn
    <3>2. call'[Main].pc \in {"idle", "startLaunch"}
      BY <3>1, Going, Ending
    <3> QED
      BY <3>2 DEF op
  <2>3. PICK n \in Names : n = op.name
    BY <1>1 DEF StartMount, StartLaunch, StopSignal, RemoveReturn, op
  <2>4. \/ UNCHANGED disk
        \/ \E r : r # Absent /\ disk' = [disk EXCEPT ![n].rootfs = r]
        \/ RootfsTouched(op.obj, n)
    BY <1>1, <2>3 DEF StartMount, StartLaunch, StopSignal, RemoveReturn, Prepared,
       PrepareFailed, HasBin, op
  <2>5. ASSUME RootfsTouched(op.obj, n)
        PROVE  \E r : disk' = [disk EXCEPT ![n].rootfs = r]
                        /\ (r = Absent => disk[n].rootfs = Absent)
    BY <2>5 DEF RootfsTouched
  <2>6. \A k \in Names : /\ disk'[k].config = disk[k].config
                         /\ disk'[k].rootfs = Absent => disk[k].rootfs = Absent
    <3>1. CASE UNCHANGED disk
      BY <3>1
    <3>2. ASSUME NEW r, disk' = [disk EXCEPT ![n].rootfs = r],
                 r = Absent => disk[n].rootfs = Absent
          PROVE  \A k \in Names : /\ disk'[k].config = disk[k].config
                                 /\ disk'[k].rootfs = Absent => disk[k].rootfs = Absent
      BY <3>2, RootfsSet
    <3>3. CASE \E r : r # Absent /\ disk' = [disk EXCEPT ![n].rootfs = r]
      <4>1. PICK r : r # Absent /\ disk' = [disk EXCEPT ![n].rootfs = r]
        BY <3>3
      <4> QED
        BY <4>1, <3>2
    <3>4. CASE RootfsTouched(op.obj, n)
      <4>1. PICK r : /\ disk' = [disk EXCEPT ![n].rootfs = r]
                     /\ r = Absent => disk[n].rootfs = Absent
        BY <2>5, <3>4
      <4> QED
        BY <4>1, <3>2
    <3> QED
      BY <2>4, <3>1, <3>3, <3>4
  <2> QED
    BY <2>1, <2>2, <2>6, SavedKept DEF Exists
<1>2. CASE RemoveUnmount(Main)
  <2>1. PICK n \in Names : n = op.name /\ UNCHANGED <<containers, heap>>
                             /\ disk' = [disk EXCEPT ![n].rootfs = Unmounted(@)]
    BY <1>2 DEF RemoveUnmount, op
  <2>2. op'.pc # "createCommit"
    <3>1. Goto(Main, "removeFiles")
      BY <1>2 DEF RemoveUnmount
    <3>2. call'[Main].pc = "removeFiles"
      BY <3>1, Going
    <3> QED
      BY <3>2 DEF op
  <2>3. \A k \in Names : /\ disk'[k].config = disk[k].config
                         /\ disk'[k].rootfs = Absent => disk[k].rootfs = Absent
    BY <2>1, RootfsSet DEF Unmounted
  <2> QED
    BY <2>1, <2>2, <2>3, SavedKept DEF Exists
<1>3. CASE RemovePart(Main)
  <2>1. /\ op.pc = "removeFiles" /\ ~Exists(op.name) /\ op' = op
        /\ UNCHANGED <<containers, heap>>
        /\ \A k \in Names : k # op.name => disk'[k] = disk[k]
    BY <1>3 DEF RemovePart, OpInv, goVars, op
  <2> QED
    BY <2>1 DEF Durable, Exists, Restorable
<1>4. CASE Continue(Main)
  BY <1>1, <1>2, <1>3, <1>4, CreatePrepSaved, CreateCommitSaved DEF Continue
<1>5. ASSUME NEW n \in Names, Request(Main, n) \/ AutoStart(n)
      PROVE  Durable' /\ (op'.pc = "createCommit" => disk'[op'.name].rootfs # Absent)
  <2>1. /\ UNCHANGED <<heap, disk>> /\ op'.pc # "createCommit"
        /\ UNCHANGED containers \/ containers' = [containers EXCEPT ![n] = NoObj]
    BY <1>5, RequestStep, AutoStep DEF op
  <2>2. \A k \in Names : Exists(k)' => Exists(k) /\ containers'[k] = containers[k]
    BY <2>1 DEF Exists
  <2> QED
    BY <2>1, <2>2, SavedKept
<1>6. ASSUME NEW p \in Pids, Waiter(p) \/ Killer(p) \/ Exit(p)
      PROVE  Durable' /\ (op'.pc = "createCommit" => disk'[op'.name].rootfs # Absent)
  BY <1>6, AsideStep, SavedKept DEF Exists, op
<1>7. CASE Serve \/ UNCHANGED vars
  BY <1>7, SavedKept DEF Serve, vars, goVars, Exists, op
<1>8. CASE VmRestart \/ AgentRestart
  <2>1. PICK d \in [Names -> Directories] :
           Loaded(d) /\ disk' = d /\ call' = [c \in Callers |-> Idle]
    BY <1>8, RestartLoads
  <2>2. op'.pc = "idle"
    BY <2>1 DEF op, Idle
  <2>3. Durable'
    BY <2>1, LoadedMap DEF Durable, Exists
  <2> QED
    BY <2>2, <2>3
<1> QED
  BY <1>4, <1>5, <1>6, <1>7, <1>8 DEF Next, Boot, Saves

\* So it is never lost.
LEMMA SavedInvariance == ASSUME Saves PROVE Spec => []SavedInv
<1>1. Init => SavedInv
  BY InitInv, NullAssumption, ParamsAssumption
     DEF Init, SavedInv, BaseInv, Asked, StatusInv, OpInv, Durable, Idle, Exists, op
<1>2. SavedInv /\ [Next]_vars => SavedInv'
  BY NextSaved
<1> QED
  BY <1>1, <1>2, PTL DEF Spec

\* What was acknowledged survives: at every moment, whatever operation is under way,
\* a restart of the VM or of the agent would bring back each container of the map, with
\* its parameters (container.go:154-249).
THEOREM Durability == ASSUME Saves PROVE Spec => []Durable
<1>1. SavedInv => Durable
  BY DEF SavedInv
<1> QED
  BY <1>1, SavedInvariance, PTL

-----------------------------------------------------------------------------
\* The refinement of ContainerService, name by name.
Status(n) == IF Exists(n) THEN heap[containers[n]].status ELSE "absent"
Unsettled == {n \in Names : ~Exists(n) /\ disk[n].config # NoConfig}

\* A step that changes what the service shows of one name at most is one of its.
LEMMA ServiceStep ==
  ASSUME NEW n \in Names,
         \A k \in Names \ {n} : /\ Status(k)' = Status(k)
                                /\ k \in Unsettled' <=> k \in Unsettled
  PROVE  /\ Status(n)' = Status(n) /\ (n \in Unsettled' <=> n \in Unsettled)
               => UNCHANGED Service!svcVars
         /\ Status(n) = "absent" /\ Status(n)' = "created" /\ n \notin Unsettled'
               => Service!Create(n)
         /\ Status(n) \in {"created", "stopped"} /\ Status(n)' = "running"
               /\ n \notin Unsettled /\ n \notin Unsettled'
               => Service!Start(n)
         /\ Status(n) = "running" /\ Status(n)' = "stopped"
               /\ n \notin Unsettled /\ n \notin Unsettled'
               => Service!Exit(n)
         /\ Status(n) \in {"created", "stopped"} /\ Status(n)' = "absent" /\ n \in Unsettled'
               => Service!Remove(n)
         /\ Status(n)' = Status(n) /\ n \in Unsettled /\ n \notin Unsettled'
               => Service!Settle(n)
<1> DEFINE st == [k \in Names |-> Status(k)]
<1>1. /\ st = [k \in Names |-> IF Exists(k) THEN heap[containers[k]].status ELSE "absent"]
      /\ st' = [k \in Names |-> IF Exists(k) THEN heap[containers[k]].status ELSE "absent"]'
  BY DEF Status
<1>2. /\ st \in [Names -> {st[k] : k \in Names}] /\ st[n] = Status(n)
      /\ st' = [st EXCEPT ![n] = Status(n)']
  OBVIOUS
<1>3. st' = st <=> Status(n)' = Status(n)
  BY <1>2
<1>4. Unsettled \subseteq Names /\ Unsettled' \subseteq Names
  BY DEF Unsettled
<1>5. /\ (n \in Unsettled' <=> n \in Unsettled) => Unsettled' = Unsettled
      /\ n \notin Unsettled' => Unsettled' = Unsettled \ {n}
      /\ n \in Unsettled' => Unsettled' = Unsettled \cup {n}
  BY <1>4
<1> HIDE DEF st
<1>6. /\ UNCHANGED Service!svcVars <=> st' = st /\ Unsettled' = Unsettled
      /\ Service!Create(n) <=> /\ st[n] = "absent" /\ st' = [st EXCEPT ![n] = "created"]
                               /\ Unsettled' = Unsettled \ {n}
  BY <1>1 DEF Service!svcVars, Service!Create, Unsettled
<1>7. /\ Service!Start(n) <=> /\ st[n] \in {"created", "stopped"}
                              /\ st' = [st EXCEPT ![n] = "running"]
                              /\ UNCHANGED Unsettled
      /\ Service!Exit(n) <=> /\ st[n] = "running" /\ st' = [st EXCEPT ![n] = "stopped"]
                             /\ UNCHANGED Unsettled
  BY <1>1 DEF Service!Start, Service!Exit, Unsettled
<1>8. /\ Service!Remove(n) <=> /\ st[n] \in {"created", "stopped"}
                               /\ st' = [st EXCEPT ![n] = "absent"]
                               /\ Unsettled' = Unsettled \cup {n}
      /\ Service!Settle(n) <=> /\ n \in Unsettled /\ Unsettled' = Unsettled \ {n}
                               /\ st' = st
  BY <1>1 DEF Service!Remove, Service!Settle, Unsettled
<1>9. ASSUME NEW s, Status(n)' = s PROVE st' = [st EXCEPT ![n] = s]
  BY <1>2, <1>9
<1>10. /\ Status(n)' = Status(n) /\ (n \in Unsettled' <=> n \in Unsettled)
             => UNCHANGED Service!svcVars
       /\ Status(n) = "absent" /\ Status(n)' = "created" /\ n \notin Unsettled'
             => Service!Create(n)
  BY <1>2, <1>3, <1>5, <1>6, <1>9
<1>11. /\ Status(n) \in {"created", "stopped"} /\ Status(n)' = "running"
             /\ n \notin Unsettled /\ n \notin Unsettled'
             => Service!Start(n)
       /\ Status(n) = "running" /\ Status(n)' = "stopped"
             /\ n \notin Unsettled /\ n \notin Unsettled'
             => Service!Exit(n)
  BY <1>2, <1>5, <1>7, <1>9
<1>12. /\ Status(n) \in {"created", "stopped"} /\ Status(n)' = "absent" /\ n \in Unsettled'
             => Service!Remove(n)
       /\ Status(n)' = Status(n) /\ n \in Unsettled /\ n \notin Unsettled'
             => Service!Settle(n)
  BY <1>2, <1>3, <1>5, <1>8, <1>9
<1> QED
  BY <1>10, <1>11, <1>12

\* Only the name of the operation under way, or none, is touched.
LEMMA Silent ==
  ASSUME UNCHANGED containers,
         \A o \in Objs : heap'[o].status = heap[o].status,
         \A k \in Names : Exists(k) => containers[k] \in Objs,
         \A k \in Names : disk'[k].config = disk[k].config
  PROVE  UNCHANGED Service!svcVars
<1>1. ASSUME NEW k \in Names
      PROVE  Status(k)' = Status(k) /\ (k \in Unsettled' <=> k \in Unsettled)
  BY DEF Status, Unsettled, Exists
<1>2. CASE \E n \in Names : TRUE
  BY <1>1, <1>2, ServiceStep
<1>3. CASE ~\E n \in Names : TRUE
  BY <1>3 DEF Service!svcVars
<1> QED
  BY <1>2, <1>3

\* The end of a creation is Create, or shows in nothing.
LEMMA CommitService ==
  ASSUME Saves, SavedInv, CreateCommit(Main)
  PROVE  (\E n \in Names : Service!Create(n)) \/ UNCHANGED Service!svcVars
<1> USE Typed, NullAssumption DEF SavedInv, BaseInv
<1>1. PICK n \in Names : n = op.name /\ ~Exists(n) /\ op.params \in Params
  BY DEF CreateCommit, OpInv, Asked, op
<1>2. CASE UNCHANGED <<containers, heap, disk>>
  BY <1>2, Silent
<1>3. ASSUME NEW o \in Objs, NEW prm \in Params, Garbage(o),
             heap' = [heap EXCEPT ![o] = [status |-> "created", name |-> n,
                                          params |-> prm, pid |-> NoPid]],
             containers' = [containers EXCEPT ![n] = o],
             disk' = [disk EXCEPT ![n].config = prm]
      PROVE  Service!Create(n)
  <2>1. Status(n) = "absent" /\ Status(n)' = "created" /\ n \notin Unsettled'
    BY <1>1, <1>3 DEF Status, Unsettled, Exists
  <2>2. ASSUME NEW k \in Names \ {n}
        PROVE  Status(k)' = Status(k) /\ (k \in Unsettled' <=> k \in Unsettled)
    BY <1>3 DEF Status, Unsettled, Exists, Garbage
  <2> QED
    BY <2>1, <2>2, ServiceStep
<1> QED
  BY <1>1, <1>2, <1>3 DEF CreateCommit, SavedConfig, Saves, op

\* A launch is Start, or shows in nothing.
LEMMA LaunchService ==
  ASSUME Saves, SavedInv, StartLaunch(Main)
  PROVE  (\E n \in Names : Service!Start(n)) \/ UNCHANGED Service!svcVars
<1> USE Typed, NullAssumption DEF SavedInv, BaseInv
<1> DEFINE n == op.name
           o == op.obj
<1>1. /\ n \in Names /\ Exists(n) /\ o = containers[n] /\ o \in Objs
      /\ UNCHANGED containers
  BY DEF StartLaunch, OpInv, Exists, op
<1>2. \A k \in Names : disk'[k].config = disk[k].config
  <2>1. disk \in [Names -> Directories]
    OBVIOUS
  <2>2. UNCHANGED disk \/ \E r : disk' = [disk EXCEPT ![n].rootfs = r]
    BY DEF StartLaunch, RootfsTouched, op
  <2>3. ASSUME NEW r, disk' = [disk EXCEPT ![n].rootfs = r], NEW k \in Names
        PROVE  disk'[k].config = disk[k].config
    BY <2>1, <2>3 DEF Directories
  <2> QED
    BY <2>2, <2>3
<1>3. CASE UNCHANGED heap
  BY <1>1, <1>2, <1>3, Silent
<1>4. CASE /\ ~Running(o)
           /\ \E p \in Pids : heap' = [heap EXCEPT ![o].status = "running", ![o].pid = p]
  <2>1. /\ heap'[o].status = "running"
        /\ \A x \in Objs : x # o => heap'[x] = heap[x]
    BY <1>1, <1>4 DEF Structs
  <2>2. ASSUME NEW k \in Names \ {n} PROVE Exists(k) => containers[k] # o
    BY <1>1 DEF IInv, MapInv
  <2>3. ASSUME NEW k \in Names \ {n}
        PROVE  Status(k)' = Status(k) /\ (k \in Unsettled' <=> k \in Unsettled)
    BY <1>1, <1>2, <2>1, <2>2 DEF Status, Unsettled, Exists
  <2>4. PICK m \in Names : m = n
    BY <1>1
  <2>5. /\ Status(m) \in {"created", "stopped"} /\ Status(m)' = "running"
        /\ m \notin Unsettled /\ m \notin Unsettled'
    BY <1>1, <1>4, <2>1, <2>4 DEF Status, Unsettled, Exists, StatusInv, Running
  <2> QED
    BY <2>3, <2>4, <2>5, ServiceStep
<1> QED
  BY <1>1, <1>3, <1>4 DEF StartLaunch, StartMayLaunch, Launch, op

\* The end of a process, when it is published, is Exit.
LEMMA PublishService ==
  ASSUME SavedInv, NEW p \in Pids, WaiterPublish(p)
  PROVE  \E n \in Names : Service!Exit(n)
<1> USE Typed, NullAssumption DEF SavedInv, BaseInv
<1> DEFINE o == procs[p].obj
<1>1. /\ o \in Objs /\ Running(o) /\ heap[o].name \in Names
      /\ containers[heap[o].name] = o
  BY DEF WaiterPublish, IInv, WaitInv, RunInv
<1>2. PICK n \in Names : n = heap[o].name
  BY <1>1
<1>3. /\ UNCHANGED <<containers, disk>>
      /\ heap' = [heap EXCEPT ![o].status = "stopped", ![o].pid = NoPid]
  BY DEF WaiterPublish
<1>4. heap'[o].status = "stopped" /\ \A x \in Objs : x # o => heap'[x] = heap[x]
  BY <1>1, <1>3 DEF Structs
<1>5. ASSUME NEW k \in Names \ {n} PROVE Exists(k) => containers[k] # o
  BY <1>2 DEF IInv, MapInv
<1>6. ASSUME NEW k \in Names \ {n}
      PROVE  Status(k)' = Status(k) /\ (k \in Unsettled' <=> k \in Unsettled)
  BY <1>3, <1>4, <1>5 DEF Status, Unsettled, Exists
<1>7. /\ Status(n) = "running" /\ Status(n)' = "stopped"
      /\ n \notin Unsettled /\ n \notin Unsettled'
  BY <1>1, <1>2, <1>3, <1>4 DEF Status, Unsettled, Exists, Running
<1> QED
  BY <1>6, <1>7, ServiceStep

\* Remove takes a container away under the mutex ...
LEMMA RemoveService ==
  ASSUME SavedInv, NEW n \in Names, RemoveCheck(Main, n)
  PROVE  Service!Remove(n)
<1> USE Typed, NullAssumption DEF SavedInv, BaseInv
<1>1. /\ Exists(n) /\ ~Running(containers[n]) /\ UNCHANGED <<heap, disk>>
      /\ containers' = [containers EXCEPT ![n] = NoObj]
  BY DEF RemoveCheck, MayRemove
<1>2. ASSUME NEW k \in Names \ {n}
      PROVE  Status(k)' = Status(k) /\ (k \in Unsettled' <=> k \in Unsettled)
  BY <1>1 DEF Status, Unsettled, Exists
<1>3. Status(n) \in {"created", "stopped"} /\ Status(n)' = "absent" /\ n \in Unsettled'
  BY <1>1 DEF Status, Unsettled, Exists, Running, StatusInv, Durable, Restorable
<1> QED
  BY <1>2, <1>3, ServiceStep

\* ... and settles it with its configuration.
LEMMA PartService ==
  ASSUME SavedInv, RemovePart(Main)
  PROVE  (\E n \in Names : Service!Settle(n)) \/ UNCHANGED Service!svcVars
<1> USE Typed, NullAssumption DEF SavedInv, BaseInv
<1>1. PICK n \in Names : n = op.name /\ ~Exists(n)
  BY DEF RemovePart, OpInv, op
<1>2. UNCHANGED <<containers, heap>>
  BY DEF RemovePart, goVars
<1>3. CASE disk' = [disk EXCEPT ![n].config = NoConfig]
  <2>1. disk'[n].config = NoConfig /\ \A k \in Names \ {n} : disk'[k] = disk[k]
    BY <1>3 DEF Directories
  <2>2. ASSUME NEW k \in Names \ {n}
        PROVE  Status(k)' = Status(k) /\ (k \in Unsettled' <=> k \in Unsettled)
    BY <1>2, <2>1 DEF Status, Unsettled, Exists
  <2>3. Status(n)' = Status(n) /\ n \notin Unsettled'
    BY <1>2, <2>1 DEF Status, Unsettled, Exists
  <2> QED
    BY <2>2, <2>3, ServiceStep
<1>4. CASE disk' = [disk EXCEPT ![n].rootfs = Absent]
  <2>1. \A k \in Names : disk'[k].config = disk[k].config
    BY <1>4 DEF Directories
  <2> QED
    BY <1>2, <2>1, Silent
<1> QED
  BY <1>1, <1>3, <1>4 DEF RemovePart, op

\* A restart of either kind is Restart.
LEMMA RestartService ==
  ASSUME SavedInv, VmRestart \/ AgentRestart
  PROVE  Service!Restart
<1> USE Typed, NullAssumption DEF SavedInv, BaseInv
<1>1. PICK d \in [Names -> Directories] :
         /\ Loaded(d) /\ disk' = d
         /\ \A n \in Names : /\ d[n].config = disk[n].config
                             /\ d[n].rootfs = Absent <=> disk[n].rootfs = Absent
  BY RestartLoads
<1> DEFINE back == {n \in Unsettled : Restorable(d[n])}
           st == [n \in Names |-> Status(n)]
<1>2. ASSUME NEW n \in Names
      PROVE  Restorable(d[n]) <=> Restorable(disk[n])
  BY <1>1 DEF Restorable
<1>4. ASSUME NEW n \in Names
      PROVE  /\ containers'[n] # NoObj <=> Restorable(disk[n])
             /\ Restorable(disk[n]) => heap'[containers'[n]].status = "stopped"
  BY <1>1, <1>2, LoadedMap
<1>5. ASSUME NEW n \in Names
      PROVE  Restorable(disk[n]) <=> Status(n) # "absent" \/ n \in back
  <2>1. Status(n) # "absent" <=> Exists(n)
    BY DEF Status, StatusInv
  <2>2. Exists(n) => Restorable(disk[n])
    BY DEF Durable
  <2>3. ~Exists(n) /\ Restorable(disk[n]) => n \in Unsettled
    BY DEF Unsettled, Restorable
  <2> QED
    BY <1>2, <2>1, <2>2, <2>3
<1>6. ASSUME NEW n \in Names
      PROVE  /\ Status(n)' = IF Status(n) # "absent" \/ n \in back
                             THEN "stopped" ELSE "absent"
             /\ n \in Unsettled' <=> n \in Unsettled \ back
  <2>1. Status(n)' = IF Restorable(disk[n]) THEN "stopped" ELSE "absent"
    BY <1>4 DEF Status, Exists
  <2>2. n \in Unsettled' <=> ~Restorable(disk[n]) /\ disk[n].config # NoConfig
    BY <1>1, <1>4 DEF Unsettled, Exists
  <2>3. n \in Unsettled => disk[n].config # NoConfig /\ ~Exists(n)
    BY DEF Unsettled
  <2>4. ~Exists(n) /\ disk[n].config # NoConfig => n \in Unsettled
    BY DEF Unsettled
  <2>5. Exists(n) => Restorable(disk[n])
    BY DEF Durable
  <2> QED
    BY <1>2, <1>5, <2>1, <2>2, <2>3, <2>4, <2>5
<1>7. back \in SUBSET Unsettled /\ Unsettled' = Unsettled \ back
  BY <1>6 DEF Unsettled
<1>8. st' = [n \in Names |-> IF st[n] # "absent" \/ n \in back
                             THEN "stopped" ELSE "absent"]
  BY <1>6
<1>9. /\ st = [k \in Names |-> IF Exists(k) THEN heap[containers[k]].status ELSE "absent"]
      /\ st' = [k \in Names |-> IF Exists(k) THEN heap[containers[k]].status ELSE "absent"]'
  BY DEF Status
<1> HIDE DEF st, back
<1> QED
  BY <1>7, <1>8, <1>9 DEF Service!Restart, Unsettled

\* Each step of the manager is one of the service, or shows in nothing.
LEMMA NextService ==
  ASSUME Saves, SavedInv, [Next]_vars
  PROVE  [Service!Next]_(Service!svcVars)
<1> USE Typed DEF SavedInv, BaseInv
<1>1. ASSUME UNCHANGED <<containers, heap>>,
             \A k \in Names : disk'[k].config = disk[k].config
      PROVE  UNCHANGED Service!svcVars
  BY <1>1, Silent
<1>2. ASSUME NEW n \in Names, Request(Main, n)
      PROVE  Service!Remove(n) \/ UNCHANGED Service!svcVars
  <2>1. CASE RemoveCheck(Main, n)
    BY <2>1, RemoveService
  <2>2. CASE ~RemoveCheck(Main, n)
    BY <1>1, <1>2, <2>2 DEF Request, CreateCheck, Start, StopCheck
  <2> QED
    BY <2>1, <2>2
<1>3. CASE CreatePrep(Main) \/ StartMount(Main) \/ RemoveUnmount(Main)
  <2>1. UNCHANGED <<containers, heap>> /\ disk \in [Names -> Directories]
    BY <1>3 DEF CreatePrep, StartMount, RemoveUnmount
  <2>2. UNCHANGED disk \/ \E n, r : disk' = [disk EXCEPT ![n].rootfs = r]
    BY <1>3 DEF CreatePrep, StartMount, RemoveUnmount, Prepared, PrepareFailed
  <2>3. ASSUME NEW n, NEW r, disk' = [disk EXCEPT ![n].rootfs = r], NEW k \in Names
        PROVE  disk'[k].config = disk[k].config
    BY <2>1, <2>3 DEF Directories
  <2> QED
    BY <1>1, <2>1, <2>2, <2>3
<1>4. CASE StopSignal(Main) \/ RemoveReturn(Main) \/ Serve \/ UNCHANGED vars
  BY <1>1, <1>4 DEF StopSignal, RemoveReturn, Serve, vars, goVars
<1>5. ASSUME NEW p \in Pids, Waiter(p) \/ Killer(p) \/ Exit(p)
      PROVE  (\E n \in Names : Service!Exit(n)) \/ UNCHANGED Service!svcVars
  <2>1. CASE WaiterPublish(p)
    BY <2>1, PublishService
  <2>2. CASE ~WaiterPublish(p)
    BY <1>1, <1>5, <2>2 DEF Waiter, Killer, Exit, WaiterReap, WaiterTeardown,
       WaiterCleanup, KillerCheck, KillerKill, goVars
  <2> QED
    BY <2>1, <2>2
<1>6. ASSUME NEW n \in Names, AutoStart(n) PROVE UNCHANGED Service!svcVars
  BY <1>1, <1>6 DEF AutoStart
<1>7. CASE Continue(Main)
  BY <1>3, <1>4, <1>7, CommitService, LaunchService, PartService
     DEF Continue, Service!Next
<1> QED
  BY <1>2, <1>4, <1>5, <1>6, <1>7, RestartService
     DEF Next, Boot, Saves, Service!Next

\* The manager begins as the service does.
LEMMA InitService == Init => Service!Init
  BY DEF Init, Exists, NoDir, Service!Init

\* The manager, with everything it does between a request and its answer and at a
\* restart of the VM or of the agent alone, implements the service: no container is
\* lost, invented, or changes its status in a way that ContainerService does not promise.
THEOREM Implementation == ASSUME Saves PROVE Spec => ImplementsService
<1>1. Init => Service!Init
  BY InitService
<1>2. SavedInv /\ [Next]_vars => [Service!Next]_(Service!svcVars)
  BY NextService
<1> QED
  BY <1>1, <1>2, SavedInvariance, PTL DEF Spec, ImplementsService, Service!Spec

-----------------------------------------------------------------------------
\* The rootfs of a running container, with writes that fail and containers of all
\* sources: images are overlay mounts, only the VM restarts, and no creation is
\* refused at its end, where its rootfs is mounted.
Shows ==
    /\ Callers = {Main} /\ OverlayFS /\ ~AgentRestarts
    /\ \A prm \in Params : prm.restart \in Policies

\* The image that a rootfs shows is its container's, or that of the operation
\* under way.
ShowsOwn ==
    \A n \in Names : disk[n].rootfs \in Images =>
        IF Exists(n) THEN heap[containers[n]].params.src = disk[n].rootfs
                     ELSE op.name = n

\* It is shown from the mount to the end of the process.
Mounted ==
    \A n \in Names :
        Exists(n) /\ (Running(containers[n]) \/ (op.pc = "startLaunch" /\ op.name = n)) =>
            (heap[containers[n]].params.src \in Images
               => disk[n].rootfs = heap[containers[n]].params.src)

\* A creation begins on a rootfs that shows no image, as a removal ends, and is
\* committed to the image that it has mounted.
Bare ==
    /\ op.pc \in {"createPrep", "removeFiles"} => disk[op.name].rootfs \notin Images
    /\ op.pc = "createCommit" /\ disk[op.name].rootfs \in Images
          => op.params.src = disk[op.name].rootfs

\* Every live process has a struct.
Owned == \A p \in Pids : Alive(p) => procs[p].obj \in Objs

Shown == ShowsOwn /\ Mounted /\ Bare
ShownInv == BaseInv /\ OpInv /\ Shown /\ Owned

\* A step on an operation that is, or becomes, no creation and no removal of files,
\* and that leaves the map and the images as they are.
LEMMA ShownKept ==
  ASSUME ShownInv, UNCHANGED <<containers, disk>>,
         \A o \in Objs : /\ heap'[o].params = heap[o].params
                         /\ heap'[o].status = "running" => heap[o].status = "running",
         \/ op' = op
         \/ /\ op'.pc \notin {"createPrep", "createCommit", "removeFiles", "startLaunch"}
            /\ \A n \in Names :
                  disk[n].rootfs \in Images /\ ~Exists(n) => op'.name = n
  PROVE  Shown'
<1> USE Typed DEF ShownInv, BaseInv, Shown
<1>1. ShowsOwn'
  BY DEF ShowsOwn, Exists
<1>2. Mounted'
  BY DEF Mounted, Exists, Running
<1>3. Bare'
  BY DEF Bare
<1> QED
  BY <1>1, <1>2, <1>3

\* Between operations an image is shown only for a container.
LEMMA AtRest ==
  ASSUME ShownInv, op.name \notin Names
  PROVE  \A n \in Names : disk[n].rootfs \in Images => Exists(n)
  BY DEF ShownInv, Shown, ShowsOwn

\* A request starts from a disk that shows images for containers only.
LEMMA RequestShown ==
  ASSUME ShownInv, NEW n \in Names, Request(Main, n) \/ AutoStart(n)
  PROVE  Shown'
<1> USE Typed DEF ShownInv, BaseInv, Shown
<1>1. /\ op.name = NoName /\ UNCHANGED <<heap, disk>> /\ op'.name = n
      /\ \/ op'.pc = "createPrep" /\ ~Exists(n) /\ UNCHANGED containers
         \/ op'.pc \in {"startMount", "stopSignal"} /\ UNCHANGED containers
         \/ op'.pc = "removeUnmount" /\ containers' = [containers EXCEPT ![n] = NoObj]
  BY RequestStep, AutoStep DEF op
<1>2. \A k \in Names : disk[k].rootfs \in Images => Exists(k)
  BY <1>1, AtRest
<1>3. \A k \in Names \ {n} : containers'[k] = containers[k] /\ (Exists(k)' <=> Exists(k))
  BY <1>1 DEF Exists
<1>4. ShowsOwn'
  BY <1>1, <1>2, <1>3 DEF ShowsOwn, Exists
<1>5. Mounted'
  BY <1>1, <1>3 DEF Mounted, Exists, Running
<1>6. Bare'
  BY <1>1, <1>2 DEF Bare
<1> QED
  BY <1>4, <1>5, <1>6

\* The operation comes to an end, leaving the directory as it was.
LEMMA EndedShown ==
  ASSUME ShownInv, UNCHANGED <<containers, heap, disk>>, Return(Main),
         Exists(op.name) \/ disk[op.name].rootfs \notin Images
  PROVE  Shown'
<1> USE Typed DEF ShownInv, BaseInv
<1>1. op'.pc = "idle"
  BY Ending DEF op
<1>2. \A k \in Names : disk[k].rootfs \in Images => Exists(k)
  BY DEF Shown, ShowsOwn
<1> QED
  BY <1>1, <1>2, ShownKept

\* A creation mounts its own image.
LEMMA CreatePrepShown ==
  ASSUME Shows, ShownInv, CreatePrep(Main)
  PROVE  Shown'
<1> USE Typed, NullAssumption DEF ShownInv, BaseInv
<1>1. PICK n \in Names :
         /\ n = op.name /\ op.pc = "createPrep" /\ UNCHANGED <<containers, heap>>
         /\ ~Exists(n) /\ disk[n].rootfs \notin Images
  BY DEF CreatePrep, OpInv, Shown, Bare, op
<1>2. CASE Return(Main)
  <2>1. ASSUME Goto(Main, "createCommit") PROVE FALSE
    <3>1. call'[Main].pc = "idle"
      BY <1>2, Ending
    <3>2. call'[Main].pc = "createCommit"
      BY <2>1, Going
    <3> QED
      BY <3>1, <3>2
  <2>2. UNCHANGED disk
    BY <2>1 DEF CreatePrep, Shows, PrepareFailed, op
  <2> QED
    BY <1>1, <1>2, <2>2, EndedShown
<1>3. CASE Goto(Main, "createCommit")
  <2>1. op'.pc = "createCommit" /\ op'.name = n /\ op'.params = op.params
    BY <1>1, <1>3, Going DEF op
  <2>2. ~Return(Main)
    BY <2>1, Ending DEF op
  <2>3. /\ \A k \in Names \ {n} : disk'[k] = disk[k]
        /\ disk'[n].rootfs \in Images => op.params.src = disk'[n].rootfs
    <3>1. CASE op.params.src \in Images /\ Prepared(n, op.params.src)
      <4>1. disk' = [disk EXCEPT ![n].rootfs = op.params.src]
        BY <1>1, <3>1 DEF Prepared, HasBin
      <4> QED
        BY <4>1, RootfsSet
    <3>2. CASE UNCHANGED disk
      BY <1>1, <3>2
    <3> QED
      BY <1>1, <2>2, <3>1, <3>2 DEF CreatePrep, op
  <2>4. ShowsOwn'
    BY <1>1, <2>1, <2>3 DEF Shown, ShowsOwn, Exists
  <2>5. Mounted'
    BY <1>1, <2>1, <2>3 DEF Shown, Mounted, Exists, Running
  <2>6. Bare'
    BY <2>1, <2>3 DEF Bare
  <2> QED
    BY <2>4, <2>5, <2>6 DEF Shown
<1> QED
  BY <1>2, <1>3 DEF CreatePrep

\* It ends with the container showing it.
LEMMA CreateCommitShown ==
  ASSUME Shows, ShownInv, CreateCommit(Main)
  PROVE  Shown'
<1> USE Typed, NullAssumption DEF ShownInv, BaseInv
<1>1. PICK n \in Names :
         /\ n = op.name /\ op.pc = "createCommit" /\ ~Exists(n) /\ op.params \in Params
  BY DEF CreateCommit, OpInv, Asked, op
<1>2. PICK o \in Objs :
         /\ Garbage(o)
         /\ heap' = [heap EXCEPT ![o] = [status |-> "created", name |-> n,
                                         params |-> op.params, pid |-> NoPid]]
         /\ containers' = [containers EXCEPT ![n] = o]
         /\ UNCHANGED disk \/ disk' = [disk EXCEPT ![n].config = op.params]
         /\ Return(Main)
  BY <1>1 DEF CreateCommit, SavedConfig, Shows, op
<1>3. op'.pc = "idle"
  BY <1>2, Ending DEF op
<1>4. /\ containers'[n] = o /\ heap'[o].status = "created" /\ heap'[o].params = op.params
      /\ disk'[n].rootfs = disk[n].rootfs
  BY <1>2 DEF Directories
<1>5. ASSUME NEW k \in Names \ {n}
      PROVE  /\ containers'[k] = containers[k] /\ disk'[k] = disk[k]
             /\ Exists(k) => heap'[containers[k]] = heap[containers[k]]
  BY <1>2 DEF Garbage, Exists
<1>6. ShowsOwn'
  BY <1>1, <1>4, <1>5 DEF Shown, ShowsOwn, Bare, Exists
<1>7. Mounted'
  BY <1>3, <1>4, <1>5 DEF Shown, Mounted, Running, Exists
<1>8. Bare'
  BY <1>3 DEF Bare
<1> QED
  BY <1>6, <1>7, <1>8 DEF Shown

\* A start finds its image, or mounts it.
LEMMA StartMountShown ==
  ASSUME Shows, ShownInv, StartMount(Main)
  PROVE  Shown'
<1> USE Typed, NullAssumption DEF ShownInv, BaseInv
<1> DEFINE src(n) == heap[containers[n]].params.src
<1>1. PICK n \in Names :
         /\ n = op.name /\ op.pc = "startMount" /\ UNCHANGED <<containers, heap>>
         /\ Exists(n) /\ op.obj = containers[n]
  BY DEF StartMount, OpInv, Exists, op
<1>2. CASE Return(Main)
  <2>1. ASSUME Goto(Main, "startLaunch") PROVE FALSE
    <3>1. call'[Main].pc = "idle"
      BY <1>2, Ending
    <3>2. call'[Main].pc = "startLaunch"
      BY <2>1, Going
    <3> QED
      BY <3>1, <3>2
  <2>2. UNCHANGED disk
    BY <2>1 DEF StartMount, Shows, PrepareFailed, op
  <2> QED
    BY <1>1, <1>2, <2>2, EndedShown
<1>3. CASE Goto(Main, "startLaunch")
  <2>1. op'.pc = "startLaunch" /\ op'.name = n
    BY <1>1, <1>3, Going DEF op
  <2>2. ~Return(Main)
    BY <2>1, Ending DEF op
  <2>3. /\ \A k \in Names \ {n} : disk'[k] = disk[k]
        /\ disk'[n].rootfs \in Images => src(n) = disk'[n].rootfs
        /\ src(n) \in Images => disk'[n].rootfs = src(n)
    <3>1. disk[n].rootfs \in Images => src(n) = disk[n].rootfs
      BY <1>1 DEF Shown, ShowsOwn
    <3>2. CASE src(n) \in Images /\ Prepared(n, src(n))
      <4>1. disk' = [disk EXCEPT ![n].rootfs = src(n)]
        BY <1>1, <3>1, <3>2 DEF Prepared, HasBin
      <4> QED
        BY <3>2, <4>1, RootfsSet
    <3>3. CASE src(n) \notin Images /\ UNCHANGED disk
      BY <3>1, <3>3
    <3> QED
      BY <1>1, <2>2, <3>2, <3>3 DEF StartMount, op
  <2>4. ShowsOwn'
    BY <1>1, <2>3 DEF Shown, ShowsOwn, Exists
  <2>5. Mounted'
    BY <1>1, <2>1, <2>3 DEF Shown, Mounted, Exists, Running
  <2>6. Bare'
    BY <2>1 DEF Bare
  <2> QED
    BY <2>4, <2>5, <2>6 DEF Shown
<1> QED
  BY <1>2, <1>3 DEF StartMount

\* The launch changes no rootfs that shows an image.
LEMMA StartLaunchShown ==
  ASSUME Shows, ShownInv, StartLaunch(Main)
  PROVE  Shown'
<1> USE Typed, NullAssumption DEF ShownInv, BaseInv
<1>1. PICK n \in Names, o \in Objs :
         /\ n = op.name /\ o = op.obj /\ op.pc = "startLaunch" /\ Exists(n)
         /\ o = containers[n] /\ UNCHANGED containers /\ Return(Main)
  BY DEF StartLaunch, OpInv, Exists, op
<1>2. op'.pc = "idle"
  BY <1>1, Ending DEF op
<1>3. \A x \in Objs :
        /\ heap'[x].params = heap[x].params
        /\ heap'[x].status = "running" => heap[x].status = "running" \/ x = o
  BY <1>1, LaunchStep DEF op
<1>4. \A k \in Names : \A i \in Images : disk'[k].rootfs = i <=> disk[k].rootfs = i
  <2>1. ASSUME RootfsTouched(o, n)
        PROVE  \E r : /\ disk' = [disk EXCEPT ![n].rootfs = r]
                      /\ \A i \in Images : r = i <=> disk[n].rootfs = i
    <3> DEFINE r == IF disk[n].rootfs = Absent /\ heap[o].params.src # External
                    THEN Empty ELSE disk[n].rootfs
    <3>1. disk' = [disk EXCEPT ![n].rootfs = r]
      BY <2>1 DEF RootfsTouched
    <3>2. \A i \in Images : r = i <=> disk[n].rootfs = i
      OBVIOUS
    <3> HIDE DEF r
    <3> QED
      BY <3>1, <3>2
  <2>2. ASSUME RootfsTouched(o, n), NEW k \in Names, NEW i \in Images
        PROVE  disk'[k].rootfs = i <=> disk[k].rootfs = i
    <3>1. PICK r : /\ disk' = [disk EXCEPT ![n].rootfs = r]
                   /\ \A j \in Images : r = j <=> disk[n].rootfs = j
      BY <2>1, <2>2
    <3> QED
      BY <3>1, RootfsSet
  <2> QED
    BY <1>1, <2>2 DEF StartLaunch, op
<1>5. \A k \in Names : disk'[k].rootfs \in Images <=> disk[k].rootfs \in Images
  BY <1>4
<1>6. \A k \in Names : disk'[k].rootfs \in Images => disk'[k].rootfs = disk[k].rootfs
  BY <1>4
<1>7. ShowsOwn'
  BY <1>1, <1>3, <1>5, <1>6 DEF Shown, ShowsOwn, Exists
<1>8. Mounted'
  <2> SUFFICES ASSUME NEW k \in Names, Exists(k), heap'[containers[k]].status = "running",
                      heap[containers[k]].params.src \in Images
               PROVE  disk[k].rootfs = heap[containers[k]].params.src
    BY <1>1, <1>2, <1>3, <1>4 DEF Mounted, Exists, Running
  <2>1. CASE Running(containers[k])
    BY <2>1 DEF Shown, Mounted
  <2>2. CASE containers[k] = o
    BY <1>1, <2>2 DEF Shown, Mounted, IInv, MapInv
  <2> QED
    BY <1>3, <2>1, <2>2 DEF Running
<1>9. Bare'
  BY <1>2 DEF Bare
<1> QED
  BY <1>7, <1>8, <1>9 DEF Shown

\* A removal unmounts first.
LEMMA RemoveShown ==
  ASSUME Shows, ShownInv, RemoveUnmount(Main) \/ RemovePart(Main) \/ RemoveReturn(Main)
  PROVE  Shown'
<1> USE Typed, NullAssumption DEF ShownInv, BaseInv
<1>1. PICK n \in Names :
         /\ n = op.name /\ op.pc \in {"removeUnmount", "removeFiles"} /\ ~Exists(n)
         /\ UNCHANGED <<containers, heap>> /\ \A k \in Names \ {n} : disk'[k] = disk[k]
  BY DEF RemoveUnmount, RemovePart, RemoveReturn, OpInv, goVars, op
<1>2. CASE RemoveReturn(Main)
  <2>1. disk[n].rootfs \notin Images
    BY <1>1, <1>2 DEF RemoveReturn, Shown, Bare, op
  <2> QED
    BY <1>1, <1>2, <2>1, EndedShown DEF RemoveReturn
<1>3. ASSUME op'.pc = "removeFiles", op'.name = n, disk'[n].rootfs \notin Images
      PROVE  Shown'
  <2>1. ShowsOwn'
    BY <1>1, <1>3 DEF Shown, ShowsOwn, Exists
  <2>2. Mounted'
    BY <1>1, <1>3 DEF Shown, Mounted, Exists, Running
  <2>3. Bare'
    BY <1>3 DEF Bare
  <2> QED
    BY <2>1, <2>2, <2>3 DEF Shown
<1>4. CASE RemoveUnmount(Main)
  <2>1. disk' = [disk EXCEPT ![n].rootfs = Unmounted(@)] /\ Goto(Main, "removeFiles")
    BY <1>1, <1>4 DEF RemoveUnmount, op
  <2>2. disk'[n].rootfs \notin Images
    BY <2>1, RootfsSet DEF Unmounted, Shows
  <2>3. op'.pc = "removeFiles" /\ op'.name = n
    <3>1. call'[Main].pc = "removeFiles" /\ call'[Main].name = call[Main].name
      BY <2>1, Going
    <3> QED
      BY <1>1, <3>1 DEF op
  <2> QED
    BY <1>3, <2>2, <2>3
<1>5. CASE RemovePart(Main)
  <2>1. /\ op' = op /\ op.pc = "removeFiles" /\ disk[n].rootfs \notin Images
        /\ \/ disk' = [disk EXCEPT ![n].config = NoConfig]
           \/ disk' = [disk EXCEPT ![n].rootfs = Absent]
    BY <1>1, <1>5 DEF RemovePart, goVars, Shown, Bare, op
  <2>2. disk'[n].rootfs \notin Images
    BY <2>1 DEF Directories
  <2> QED
    BY <1>1, <1>3, <2>1, <2>2
<1> QED
  BY <1>2, <1>4, <1>5

\* A restart of the VM unmounts all.
LEMMA VmRestartShown ==
  ASSUME Shows, ShownInv, VmRestart
  PROVE  Shown'
<1> DEFINE d == [n \in Names |-> [disk[n] EXCEPT !.rootfs = Unmounted(@)]]
<1>1. ASSUME NEW n \in Names
      PROVE  d[n] \in Directories /\ d[n].rootfs \notin Images
  BY NullAssumption, Typed DEF ShownInv, BaseInv, Directories, Unmounted, Shows
<1>2. d \in [Names -> Directories] /\ Loaded(d)
  BY <1>1 DEF VmRestart
<1>3. disk' = d /\ call' = [c \in Callers |-> Idle]
  BY <1>2 DEF Loaded
<1>4. op'.pc = "idle" /\ op'.name = NoName
  BY <1>3, ParamsAssumption DEF op, Idle
<1>5. ASSUME NEW n \in Names, Exists(n)' PROVE heap'[containers'[n]].status = "stopped"
  BY <1>2, <1>5, LoadedMap DEF Exists
<1> HIDE DEF d
<1>6. ShowsOwn' /\ Bare'
  BY <1>1, <1>3, <1>4 DEF ShowsOwn, Bare
<1>7. Mounted'
  BY <1>4, <1>5 DEF Mounted, Running
<1> QED
  BY <1>6, <1>7 DEF Shown

\* No step but a restart of the agent takes a struct from a process.
LEMMA NextOwned ==
  ASSUME Shows, ShownInv, [Next]_vars
  PROVE  Owned'
<1> USE DEF ShownInv, BaseInv, Owned, Alive
<1>1. CASE UNCHANGED procs
  BY <1>1
<1>2. ASSUME NEW p \in Pids, Dies(p) \/ WaiterReap(p) PROVE Owned'
  <2>1. procs \in [Pids -> Processes]
    BY DEF IInv, TypeOK
  <2>2. ASSUME NEW q \in Pids, procs'[q].st = "alive"
        PROVE  q # p /\ procs'[q] = procs[q]
    <3>1. \E s \in {"zombie", "reaped"} : procs' = [procs EXCEPT ![p].st = s]
      BY <1>2 DEF Dies, WaiterReap
    <3> QED
      BY <2>1, <2>2, <3>1 DEF Processes
  <2> QED
    BY <2>2
<1>3. CASE StartLaunch(Main)
  <2>1. CASE \E p \in Pids : Launch(op.obj, op.name, p)
    <3>1. PICK p \in Pids : Launch(op.obj, op.name, p)
      BY <2>1
    <3>2. /\ op.obj \in Objs /\ procs \in [Pids -> Processes]
          /\ procs' = [procs EXCEPT ![p] =
                          [st |-> "alive", name |-> op.name, obj |-> op.obj]]
      BY <1>3, <3>1, Typed DEF StartLaunch, Launch, op, IInv, TypeOK
    <3> QED
      BY <3>2
  <2> QED
    BY <1>1, <1>3, <2>1 DEF StartLaunch, op
<1>4. CASE VmRestart
  BY <1>4 DEF VmRestart, NoProc
<1>5. ASSUME NEW n \in Names, Request(Main, n) PROVE UNCHANGED procs
  BY <1>5 DEF Request, CreateCheck, Start, StopCheck, RemoveCheck, procVars
<1>6. CASE Continue(Main)
  <2>1. CASE ~StartLaunch(Main)
    BY <1>1, <1>6, <2>1 DEF Continue, CreatePrep, CreateCommit, StartMount, StopSignal,
       RemoveUnmount, RemovePart, RemoveReturn, procVars
  <2> QED
    BY <1>3, <2>1
<1>7. ASSUME NEW p \in Pids, Waiter(p) \/ Killer(p) \/ Exit(p) PROVE Owned'
  BY <1>1, <1>2, <1>7 DEF Waiter, Killer, Exit, WaiterTeardown, WaiterCleanup,
     WaiterPublish, KillerCheck, KillerKill, procVars
<1>8. CASE Boot \/ UNCHANGED vars
  BY <1>1, <1>8 DEF Boot, Serve, AutoStart, vars, procVars
<1> QED
  BY <1>1, <1>4, <1>5, <1>6, <1>7, <1>8 DEF Next, Shows, AgentRestart

\* No step of the agent but its restart shows a container another image.
LEMMA NextShown == ASSUME Shows, ShownInv, [Next]_vars PROVE ShownInv'
<1> SUFFICES Shown'
  BY NextInv, NextAsked, NextStatus, NextOp, NextOwned DEF ShownInv, BaseInv, Shows
<1> USE DEF ShownInv, BaseInv
<1>1. ASSUME NEW n \in Names, Request(Main, n) \/ AutoStart(n) PROVE Shown'
  BY <1>1, RequestShown
<1>2. CASE StopSignal(Main)
  BY <1>2, EndedShown DEF StopSignal, OpInv, op
<1>3. CASE Continue(Main)
  BY <1>2, <1>3, CreatePrepShown, CreateCommitShown, StartMountShown, StartLaunchShown,
     RemoveShown DEF Continue
<1>4. ASSUME NEW p \in Pids, Waiter(p) \/ Killer(p) \/ Exit(p) PROVE Shown'
  <2>1. /\ UNCHANGED <<containers, disk, call>>
        /\ \A o \in Objs : /\ heap'[o].params = heap[o].params
                           /\ heap'[o].status \in {heap[o].status, "stopped"}
    BY <1>4, AsideStep
  <2> QED
    BY <2>1, ShownKept DEF op
<1>5. CASE Serve \/ UNCHANGED vars
  BY <1>5, ShownKept DEF Serve, vars, goVars, op
<1>6. CASE VmRestart
  BY <1>6, VmRestartShown
<1> QED
  BY <1>1, <1>3, <1>4, <1>5, <1>6 DEF Next, Boot, Shows, AgentRestart

\* A process runs on the rootfs of its container's image, although the preparation
\* leaves alone whatever shows bin/ (images.go:246-291).
THEOREM OwnImage == ASSUME Shows PROVE Spec => []RootfsIsImage
<1>1. Init => ShownInv
  <2> SUFFICES ASSUME Init PROVE ShownInv
    OBVIOUS
  <2> USE NullAssumption, ParamsAssumption
  <2>1. op = Idle /\ BaseInv
    BY InitInv DEF Init, BaseInv, Asked, StatusInv, Idle, Exists, op
  <2>2. OpInv /\ Bare
    BY <2>1 DEF OpInv, Bare, Idle
  <2>3. ShowsOwn /\ Mounted
    BY DEF Init, ShowsOwn, Mounted, Exists, NoDir
  <2>4. Owned
    BY DEF Init, Owned, Alive, NoProc
  <2> QED
    BY <2>1, <2>2, <2>3, <2>4 DEF ShownInv, Shown
<1>2. ShownInv /\ [Next]_vars => ShownInv'
  BY NextShown
<1>3. ShownInv => RootfsIsImage
  <2> SUFFICES ASSUME ShownInv, NEW p \in Pids, Alive(p),
                      heap[procs[p].obj].params.src \in Images
               PROVE  disk[procs[p].name].rootfs = heap[procs[p].obj].params.src
    BY DEF RootfsIsImage
  <2> USE DEF ShownInv, BaseInv
  <2>1. procs[p].obj \in Objs
    BY DEF Owned
  <2>2. waiter[p] = "wait"
    BY <2>1 DEF IInv, ProcInv, Alive
  <2>3. /\ Running(procs[p].obj) /\ procs[p].name \in Names
        /\ containers[procs[p].name] = procs[p].obj
    BY <2>2 DEF IInv, WaitInv, RunInv
  <2> QED
    BY <2>1, <2>3, NullAssumption DEF Shown, Mounted, Exists
<1> QED
  BY <1>1, <1>2, <1>3, PTL DEF Spec
=============================================================================
