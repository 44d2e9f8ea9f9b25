------------------------- MODULE BridgeNetworkProofs -------------------------
(* Theorems about BridgeNetwork and ContainerAccess, for every set of         *)
(* containers and every pool of addresses.                                    *)
EXTENDS ContainerAccess, TLAPS

\* While the pool is not used up, the counter stands just above every address
\* ever handed out; that is why the addresses in use differ.
DistinctIPs ==
    \A c, d \in Containers : ip[c] # NoIP /\ ip[c] = ip[d] => c = d

Fresh ==
    allocated <= Pool =>
        /\ nextIP = IF allocated = Pool THEN FirstIP ELSE FirstIP + allocated
        /\ \A c \in Containers : ip[c] # NoIP => ip[c] < FirstIP + allocated
        /\ DistinctIPs

\* What "the address is shown" says about the setup that showed it.
Wired ==
    /\ ~once => bridge = "none"
    /\ \A c \in Containers :
        /\ shown[c] # NoIP => stage[c] \in {"on", "torn"}
        /\ stage[c] = "torn" => ~alive[c]
        /\ NamedAlone(c) /\ alive[c] /\ shown[c] # NoIP => pair[c] = "inside"
        /\ pair[c] = "inside" => bridge # "none"

LEMMA InitType == Init => TypeOK
<1> SUFFICES ASSUME Init PROVE TypeOK
    OBVIOUS
<1>1. nextIP \in Addresses /\ allocated \in 0..Pool + 1
  BY NetAssumption DEF Init, Addresses, Pool
<1>2. /\ once \in BOOLEAN /\ bridge \in {"none", "unusable", "up"}
      /\ starting \in Containers \cup {Nobody}
  BY DEF Init
<1>3. alive \in [Containers -> BOOLEAN]
  BY Zenon DEF Init
<1> QED BY <1>1, <1>2, <1>3 DEF Init, TypeOK

LEMMA IncrementType == \A n \in Addresses : Increment(n) \in Addresses
  BY NetAssumption DEF Increment, Addresses

LEMMA NextType == TypeOK /\ [Next]_vars => TypeOK'
<1> SUFFICES ASSUME TypeOK, [Next]_vars PROVE TypeOK'
    OBVIOUS
<1> USE NetAssumption DEF TypeOK
<1>1. CASE UNCHANGED vars
  BY <1>1 DEF vars
<1>2. ASSUME NEW c \in Containers, Begin(c) PROVE TypeOK'
  BY <1>2 DEF Begin
<1>3. ASSUME NEW c \in Containers, Ensure(c) PROVE TypeOK'
  <2>1. ASSUME Allocate(c)
        PROVE  /\ nextIP' \in Addresses /\ allocated' \in 0..Pool + 1
               /\ ip' \in [Containers -> Addresses \cup {NoIP}]
    <3>1. nextIP' \in Addresses
      BY <2>1, IncrementType DEF Allocate
    <3>2. allocated' \in 0..Pool + 1
      BY <2>1 DEF Allocate, Pool
    <3>3. ip' \in [Containers -> Addresses \cup {NoIP}]
      BY <2>1 DEF Allocate
    <3> QED BY <3>1, <3>2, <3>3
  <2> QED BY <1>3, <2>1 DEF Ensure, Proceed, GiveUp
<1>4. ASSUME NEW c \in Containers, CreatePair(c) PROVE TypeOK'
  BY <1>4 DEF CreatePair, Proceed, GiveUp
<1>5. ASSUME NEW c \in Containers, MovePeer(c) PROVE TypeOK'
  BY <1>5 DEF MovePeer, Proceed, GiveUp
<1>6. ASSUME NEW c \in Containers, Configure(c) PROVE TypeOK'
  BY <1>6 DEF Configure, GiveUp
<1>7. ASSUME NEW c \in Containers, Die(c) PROVE TypeOK'
  BY <1>7 DEF Die
<1>8. ASSUME NEW c \in Containers, Teardown(c) PROVE TypeOK'
  BY <1>8 DEF Teardown
<1>9. ASSUME NEW c \in Containers, Publish(c) PROVE TypeOK'
  BY <1>9 DEF Publish
<1> QED BY <1>1, <1>2, <1>3, <1>4, <1>5, <1>6, <1>7, <1>8, <1>9 DEF Next

\* Every variable stays in its range; above all the eight-bit counter stays
\* among the addresses of the pool.
THEOREM NetworkTypes == Spec => []TypeOK
<1>1. Init => TypeOK
  BY InitType
<1>2. TypeOK /\ [Next]_vars => TypeOK'
  BY NextType
<1> QED BY <1>1, <1>2, PTL DEF Spec

-----------------------------------------------------------------------------
LEMMA InitFresh == Init => Fresh
  BY NetAssumption DEF Init, Fresh, DistinctIPs, Pool

\* The step that matters: the address just taken is above all the others.
LEMMA AllocateFresh ==
    ASSUME TypeOK, Fresh, NEW c \in Containers, Allocate(c), allocated' <= Pool
    PROVE  /\ nextIP' = IF allocated' = Pool THEN FirstIP ELSE FirstIP + allocated'
           /\ \A d \in Containers : ip'[d] # NoIP => ip'[d] < FirstIP + allocated'
           /\ DistinctIPs'
<1> USE NetAssumption
<1>1. allocated \in Nat /\ allocated < Pool /\ allocated' = allocated + 1
  BY DEF Allocate, TypeOK, Pool
<1>2. nextIP = FirstIP + allocated
  BY <1>1 DEF Fresh, Pool
<1>3. nextIP' = IF allocated' = Pool THEN FirstIP ELSE FirstIP + allocated'
  BY <1>1, <1>2 DEF Allocate, Increment, Pool
<1>4. /\ ip'[c] = FirstIP + allocated
      /\ \A d \in Containers : d # c => ip'[d] = ip[d]
  BY <1>2 DEF Allocate, TypeOK
<1>5. \A d \in Containers : ip[d] # NoIP => ip[d] \in Nat /\ ip[d] < FirstIP + allocated
  BY <1>1 DEF Fresh, TypeOK, Addresses, Pool
<1>6. \A d \in Containers : ip'[d] # NoIP => ip'[d] < FirstIP + allocated'
  BY <1>1, <1>4, <1>5
<1>7. \A a, b \in Containers : ip[a] # NoIP /\ ip[a] = ip[b] => a = b
  BY <1>1 DEF Fresh, DistinctIPs, Pool
<1>8. DistinctIPs'
  <2> SUFFICES ASSUME NEW a \in Containers, NEW b \in Containers,
                      ip'[a] # NoIP, ip'[a] = ip'[b]
               PROVE  a = b
      BY DEF DistinctIPs
  <2>1. FirstIP + allocated \in Nat
    BY <1>1
  <2> QED BY <2>1, <1>4, <1>5, <1>7
<1> QED BY <1>3, <1>6, <1>8

LEMMA NextFresh == TypeOK /\ Fresh /\ [Next]_vars => Fresh'
<1> SUFFICES ASSUME TypeOK, Fresh, [Next]_vars PROVE Fresh'
    OBVIOUS
<1>1. CASE UNCHANGED <<nextIP, allocated, ip>>
  BY <1>1 DEF Fresh, DistinctIPs
<1>2. ASSUME NEW c \in Containers, Allocate(c) PROVE Fresh'
  BY <1>2, AllocateFresh DEF Fresh
<1>3. ASSUME NEW c \in Containers, Publish(c) PROVE Fresh'
  <2>1. /\ UNCHANGED <<nextIP, allocated>>
        /\ \A d \in Containers : ip'[d] # NoIP => ip'[d] = ip[d]
    BY <1>3 DEF Publish, TypeOK
  <2> QED BY <2>1 DEF Fresh, DistinctIPs
<1> QED BY <1>1, <1>2, <1>3 DEF Next, vars, Begin, Ensure, CreatePair, MovePeer,
            Configure, Die, Teardown, Publish

\* allocateIP hands every address of the pool out once before it repeats one:
\* until then no two containers hold the same address.
THEOREM AddressesDistinct == Spec => []DistinctUntilWrap
<1>1. Init => TypeOK /\ Fresh
  BY InitType, InitFresh
<1>2. (TypeOK /\ Fresh) /\ [Next]_vars => (TypeOK /\ Fresh)'
  BY NextType, NextFresh
<1>3. Fresh => DistinctUntilWrap
  BY DEF Fresh, DistinctIPs, DistinctUntilWrap
<1> QED BY <1>1, <1>2, <1>3, PTL DEF Spec

-----------------------------------------------------------------------------
LEMMA NextStray == TypeOK /\ NoStrayPair /\ [Next]_vars => NoStrayPair'
<1> SUFFICES ASSUME TypeOK, NoStrayPair, [Next]_vars PROVE NoStrayPair'
    OBVIOUS
<1> USE DEF TypeOK, NoStrayPair
<1>1. CASE UNCHANGED vars
  BY <1>1 DEF vars
<1>2. ASSUME NEW c \in Containers, Begin(c) \/ Ensure(c) PROVE NoStrayPair'
  BY <1>2 DEF Begin, Ensure, Proceed, GiveUp
<1>3. ASSUME NEW c \in Containers, CreatePair(c) \/ MovePeer(c) \/ Configure(c)
      PROVE  NoStrayPair'
  BY <1>3 DEF CreatePair, MovePeer, Configure, Proceed, GiveUp
<1>4. ASSUME NEW c \in Containers, Die(c) PROVE NoStrayPair'
  BY <1>4 DEF Die
<1>5. ASSUME NEW c \in Containers, Teardown(c) PROVE NoStrayPair'
  BY <1>5 DEF Teardown, Deletes
<1>6. ASSUME NEW c \in Containers, Publish(c) PROVE NoStrayPair'
  BY <1>6 DEF Publish
<1> QED BY <1>1, <1>2, <1>3, <1>4, <1>5, <1>6 DEF Next

\* Whatever step of a setup failed and whatever the names collide with, the
\* teardown that follows the process's end leaves no link of the container.
THEOREM PairsRemoved == Spec => []NoStrayPair
<1>1. Init => TypeOK /\ NoStrayPair
  BY InitType DEF Init, NoStrayPair
<1>2. (TypeOK /\ NoStrayPair) /\ [Next]_vars => (TypeOK /\ NoStrayPair)'
  BY NextType, NextStray
<1> QED BY <1>1, <1>2, PTL DEF Spec

-----------------------------------------------------------------------------
LEMMA NextWired == TypeOK /\ Wired /\ [Next]_vars => Wired'
<1> SUFFICES ASSUME TypeOK, Wired, [Next]_vars PROVE Wired'
    OBVIOUS
<1> USE NetAssumption DEF TypeOK, Wired, NamedAlone
<1>1. CASE UNCHANGED vars
  BY <1>1 DEF vars
<1>2. ASSUME NEW c \in Containers, Begin(c) PROVE Wired'
  BY <1>2 DEF Begin
<1>3. ASSUME NEW c \in Containers, Ensure(c) PROVE Wired'
  BY <1>3 DEF Ensure, Proceed, GiveUp
<1>4. ASSUME NEW c \in Containers, CreatePair(c) PROVE Wired'
  BY <1>4 DEF CreatePair, Proceed, GiveUp
<1>5. ASSUME NEW c \in Containers, MovePeer(c) PROVE Wired'
  BY <1>5 DEF MovePeer, Attaches, Proceed, GiveUp
<1>6. ASSUME NEW c \in Containers, Configure(c) PROVE Wired'
  BY <1>6 DEF Configure, GiveUp
<1>7. ASSUME NEW c \in Containers, Die(c) PROVE Wired'
  BY <1>7 DEF Die
<1>8. ASSUME NEW c \in Containers, Teardown(c) PROVE Wired'
  BY <1>8 DEF Teardown, Deletes, Exited
<1>9. ASSUME NEW c \in Containers, Publish(c) PROVE Wired'
  BY <1>9 DEF Publish
<1> QED BY <1>1, <1>2, <1>3, <1>4, <1>5, <1>6, <1>7, <1>8, <1>9 DEF Next

\* A container whose cut name is its own keeps the pair behind the address that
\* list and portforward use, whatever setups fail and whichever other containers
\* are torn down meanwhile, without the mutex.
THEOREM ShownReachable == Spec => []ShownIsWired
<1>1. Init => TypeOK /\ Wired
  BY InitType DEF Init, Wired
<1>2. (TypeOK /\ Wired) /\ [Next]_vars => (TypeOK /\ Wired)'
  BY NextType, NextWired
<1>3. Wired => ShownIsWired
  BY DEF Wired, ShownIsWired
<1> QED BY <1>1, <1>2, <1>3, PTL DEF Spec

-----------------------------------------------------------------------------
\* Whatever reaches into the containers leaves their networks alone.
LEMMA AccessStep == [AccessNext]_allVars => [Next]_vars
<1> SUFFICES ASSUME [AccessNext]_allVars PROVE [Next]_vars
    OBVIOUS
<1>1. CASE UNCHANGED allVars
  BY <1>1 DEF allVars
<1>2. ASSUME NEW c \in Containers,
             \/ AccessBegin(c) \/ Ensure(c) \/ CreatePair(c) \/ MovePeer(c)
             \/ Configure(c) \/ Die(c) \/ Teardown(c) \/ Publish(c)
      PROVE  Next
  BY <1>2 DEF AccessBegin, Next
<1>3. ASSUME NEW c \in Containers, EnterRoot(c) \/ InitReady(c) \/ ForwardLookup(c)
      PROVE  UNCHANGED vars
  BY <1>3 DEF EnterRoot, InitReady, ForwardLookup
<1>4. ASSUME NEW c \in Runners, ExecFind(c) PROVE UNCHANGED vars
  BY <1>4 DEF ExecFind
<1>5. CASE ExecEnter \/ ExecEnd \/ ForwardDial \/ ForwardEnd
  BY <1>5 DEF ExecEnter, ExecEnd, ForwardDial, ForwardEnd
<1> QED BY <1>1, <1>2, <1>3, <1>4, <1>5 DEF AccessNext

\* The composition behaves as the network alone does, so that what is proved of
\* BridgeNetwork holds in it.
THEOREM AccessIsNetwork == AccessSpec => Spec
<1>1. AccessInit => Init
  BY DEF AccessInit
<1> QED BY <1>1, AccessStep, PTL DEF AccessSpec, Spec

\* The address that is shown is the one that was allocated, and a container is
\* set up by the Start that holds the mutex only.
Held ==
    \A c \in Containers :
        /\ shown[c] # NoIP => shown[c] = ip[c] /\ stage[c] \in {"on", "torn"}
        /\ stage[c] \in {"ensure", "create", "move", "configure"} => starting = c

\* What makes a dial arrive where the lookup meant it to: no Start, and so no
\* allocation, comes before the dial, and an address is in use once only.
Routed ==
    request.kind = "forward" =>
        /\ request \in Forwards /\ starting = Nobody
        /\ allocated <= Pool =>
              /\ \A d \in Containers : ip[d] = request.addr => d = request.of
              /\ request.to \in {request.of, Nobody}

\* The part of the type invariant that is ContainerAccess's own.
Entered ==
    /\ root \in [Containers -> {"vm", "own"}]
    /\ init \in [Containers -> {"mounts", "entered", "waiting"}]
    /\ request \in {Idle} \cup Execs \cup Forwards

AccessInv == TypeOK /\ Fresh /\ Held /\ Routed

LEMMA NextHeld == TypeOK /\ Held /\ [Next]_vars => Held'
<1> SUFFICES ASSUME TypeOK, Held, [Next]_vars PROVE Held'
    OBVIOUS
<1> USE NetAssumption DEF TypeOK, Held
<1>1. CASE UNCHANGED vars
  BY <1>1 DEF vars
<1>2. ASSUME NEW c \in Containers, Begin(c) PROVE Held'
  BY <1>2 DEF Begin
<1>3. ASSUME NEW c \in Containers, Ensure(c) PROVE Held'
  BY <1>3 DEF Ensure, Allocate, Proceed, GiveUp
<1>4. ASSUME NEW c \in Containers, CreatePair(c) PROVE Held'
  BY <1>4 DEF CreatePair, Proceed, GiveUp
<1>5. ASSUME NEW c \in Containers, MovePeer(c) PROVE Held'
  BY <1>5 DEF MovePeer, Proceed, GiveUp
<1>6. ASSUME NEW c \in Containers, Configure(c) PROVE Held'
  BY <1>6 DEF Configure, GiveUp
<1>7. ASSUME NEW c \in Containers, Die(c) \/ Teardown(c) \/ Publish(c) PROVE Held'
  BY <1>7 DEF Die, Teardown, Publish
<1> QED BY <1>1, <1>2, <1>3, <1>4, <1>5, <1>6, <1>7 DEF Next

LEMMA NextRouted == AccessInv /\ [AccessNext]_allVars => Routed'
<1> SUFFICES ASSUME AccessInv, [AccessNext]_allVars PROVE Routed'
    OBVIOUS
<1> USE DEF AccessInv
<1>1. CASE UNCHANGED allVars
  BY <1>1 DEF allVars, vars, accessVars, Routed
<1>2. ASSUME NEW c \in Containers, AccessBegin(c) PROVE Routed'
  BY <1>2 DEF AccessBegin, Routed, Idle
<1>3. ASSUME NEW c \in Containers, UNCHANGED accessVars,
             Ensure(c) \/ CreatePair(c) \/ MovePeer(c) \/ Configure(c)
      PROVE  Routed'
  <2>1. starting # Nobody
    BY <1>3, NetAssumption DEF Held, Ensure, CreatePair, MovePeer, Configure
  <2> QED BY <1>3, <2>1 DEF Routed, accessVars
<1>4. ASSUME NEW c \in Containers, UNCHANGED accessVars, Die(c) \/ Teardown(c)
      PROVE  Routed'
  BY <1>4 DEF Routed, accessVars, Die, Teardown
<1>5. ASSUME NEW c \in Containers, UNCHANGED accessVars, Publish(c) PROVE Routed'
  <2>1. /\ UNCHANGED <<starting, allocated, request>>
        /\ \A d \in Containers : ip'[d] \in {ip[d], NoIP}
    BY <1>5 DEF Publish, accessVars, TypeOK
  <2> QED BY <2>1, NetAssumption DEF Routed, Forwards, Addresses
<1>6. ASSUME NEW c \in Containers, EnterRoot(c) \/ InitReady(c) PROVE Routed'
  BY <1>6 DEF EnterRoot, InitReady, Routed, vars
<1>7. ASSUME NEW c \in Containers, ForwardLookup(c) PROVE Routed'
  <2>1. shown[c] = ip[c] /\ shown[c] \in Addresses
    BY <1>7 DEF ForwardLookup, LookupIP, Held, TypeOK
  <2>2. allocated <= Pool => \A d \in Containers : ip[d] = shown[c] => d = c
    BY <1>7, <2>1 DEF ForwardLookup, LookupIP, Fresh, DistinctIPs
  <2> QED BY <1>7, <2>1, <2>2 DEF ForwardLookup, LookupIP, Routed, Forwards, Free, vars
<1>8. ASSUME NEW c \in Runners, ExecFind(c) PROVE Routed'
  BY <1>8 DEF ExecFind, Routed
<1>9. CASE ExecEnter
  BY <1>9 DEF ExecEnter, Routed, Idle
<1>10. CASE ExecEnd \/ ForwardEnd
  BY <1>10 DEF ExecEnd, ForwardEnd, Routed, Idle
<1>11. CASE ForwardDial
  BY <1>11 DEF ForwardDial, At, Routed, Forwards, vars
<1> QED BY <1>1, <1>2, <1>3, <1>4, <1>5, <1>6, <1>7, <1>8, <1>9, <1>10, <1>11
        DEF AccessNext

\* A bridged connection ends at the container that was looked up for its port,
\* whoever ends or is torn down between the lookup and the dial, until the pool
\* of addresses has been handed out once.
THEOREM DialsReachOwner == AccessSpec => []DialReachesOwner
<1>1. AccessInit => AccessInv
  BY InitType, InitFresh, NetAssumption DEF AccessInit, AccessInv, Init, Held, Routed, Idle
<1>2. AccessInv /\ [AccessNext]_allVars => AccessInv'
  BY AccessStep, NextType, NextFresh, NextHeld, NextRouted DEF AccessInv
<1>3. AccessInv => DialReachesOwner
  BY DEF AccessInv, Routed, DialReachesOwner
<1> QED BY <1>1, <1>2, <1>3, PTL DEF AccessSpec

-----------------------------------------------------------------------------
LEMMA NextEntered == TypeOK /\ Entered /\ [AccessNext]_allVars => Entered'
<1> SUFFICES ASSUME TypeOK, Entered, [AccessNext]_allVars PROVE Entered'
    OBVIOUS
<1> USE DEF Entered
<1>1. CASE UNCHANGED accessVars
  BY <1>1 DEF accessVars
<1>2. ASSUME NEW c \in Containers, AccessBegin(c) PROVE Entered'
  BY <1>2 DEF AccessBegin, Idle
<1>3. ASSUME NEW c \in Containers, EnterRoot(c) \/ InitReady(c) PROVE Entered'
  BY <1>3 DEF EnterRoot, InitReady
<1>4. ASSUME NEW c \in Containers, ForwardLookup(c) PROVE Entered'
  BY <1>4 DEF ForwardLookup, LookupIP, Forwards, TypeOK
<1>5. ASSUME NEW c \in Runners, ExecFind(c) PROVE Entered'
  BY <1>5 DEF ExecFind, Execs
<1>6. CASE ExecEnter
  <2>1. /\ request \in Execs /\ request.of \in Containers
        /\ UNCHANGED <<root, init>>
    BY <1>6, AccessAssumption DEF ExecEnter, Execs, Forwards, Idle
  <2>2. CASE request' = Idle
    BY <2>1, <2>2 DEF Idle
  <2>3. CASE request' = [request EXCEPT !.pc = "inside", !.root = root[request.of],
                                        !.ready = init[request.of] = "waiting"]
    <3>1. root[request.of] \in {"vm", "own"} /\ (init[request.of] = "waiting") \in BOOLEAN
      BY <2>1
    <3> QED BY <2>1, <2>3, <3>1 DEF Execs
  <2> QED BY <1>6, <2>2, <2>3 DEF ExecEnter
<1>7. CASE ExecEnd \/ ForwardEnd
  BY <1>7 DEF ExecEnd, ForwardEnd, Idle
<1>8. CASE ForwardDial
  <2>1. request \in Forwards
    BY <1>8 DEF ForwardDial, Idle, Execs
  <2> QED BY <1>8, <2>1 DEF ForwardDial, At, Forwards, Execs
<1> QED BY <1>1, <1>2, <1>3, <1>4, <1>5, <1>6, <1>7, <1>8 DEF AccessNext, allVars, accessVars

\* The commands and connections keep their types, with the network's.
THEOREM AccessTypes == AccessSpec => []AccessTypeOK
<1>1. AccessInit => TypeOK /\ Entered
  BY InitType DEF AccessInit, Entered, Idle
<1>2. (TypeOK /\ Entered) /\ [AccessNext]_allVars => (TypeOK /\ Entered)'
  BY AccessStep, NextType, NextEntered
<1>3. TypeOK /\ Entered => AccessTypeOK
  BY DEF Entered, AccessTypeOK
<1> QED BY <1>1, <1>2, <1>3, PTL DEF AccessSpec
================================================================================
