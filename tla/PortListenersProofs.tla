------------------------- MODULE PortListenersProofs -------------------------
(* Theorems about PortListeners, for any containers, ports and retries. *)
EXTENDS PortListeners, TLAPS

States == {"none", "spawned", "bound", "serving", "over"}
Has(g) == gor[g] \in {"bound", "serving"}

\* The variables the proofs are about, with their types.
Typed ==
    /\ portOf \in [Containers -> Ports]
    /\ gor \in [Goroutines -> States]
    /\ registered \in [Ports -> Goroutines \cup {Nobody}]
    /\ creating \in [Containers -> {"create", "start", "forward", "done"}]
    /\ removing \in [Containers -> {"list", "unforward", "stop", "remove"}]
    /\ removals \in [Containers -> Nat]
    /\ listed \subseteq Containers

\* One goroutine at most has a port; the map knows those that accept, and no
\* others.
PortInv ==
    /\ \A g, h \in Goroutines : Has(g) /\ Has(h) /\ Port(g) = Port(h) => g = h
    /\ \A g \in Goroutines : gor[g] = "serving" <=> registered[Port(g)] = g
    /\ \A p \in Ports, g \in Goroutines : registered[p] = g => Port(g) = p

\* Each goroutine is started at most once.
OnceInv ==
    \A c \in Containers :
        /\ creating[c] # "done" => gor[<<c, "create">>] = "none"
        /\ restoring # "done" => gor[<<c, "restore">>] = "none"

\* A listener is closed on behalf of a removal that was counted.
RmInv == \A c \in Containers : removing[c] # "list" => removals[c] > 0

ListenInv == Typed /\ PortInv /\ OnceInv /\ RmInv

-----------------------------------------------------------------------------
LEMMA PortType ==
    ASSUME Typed, NEW g \in Goroutines
    PROVE  Port(g) \in Ports /\ g # Nobody
  BY NobodyAssumption DEF Typed, Port, Goroutines

\* Spawning goroutines that were not there touches no listener.
LEMMA SpawnInv ==
    ASSUME Typed, PortInv, NEW cs \in SUBSET Containers, NEW by,
           \A c \in cs : by \in {"create", "restore"} /\ gor[<<c, by>>] = "none",
           gor' = Spawned(cs, by), UNCHANGED <<portOf, registered>>
    PROVE  /\ gor' \in [Goroutines -> States]
           /\ \A g \in Goroutines : Has(g) \/ Has(g)' => gor'[g] = gor[g]
           /\ PortInv'
<1>1. \A g \in Goroutines :
         gor'[g] = IF g[1] \in cs /\ g[2] = by THEN "spawned" ELSE gor[g]
  BY DEF Spawned
<1>2. gor' \in [Goroutines -> States]
  BY DEF Spawned, States, Typed
<1>3. ASSUME NEW g \in Goroutines, g[1] \in cs, g[2] = by PROVE gor[g] = "none"
  <2>1. g = <<g[1], by>>
    BY <1>3 DEF Goroutines
  <2> QED BY <1>3, <2>1
<1>4. \A g \in Goroutines : Has(g) \/ Has(g)' => gor'[g] = gor[g]
  BY <1>1, <1>3 DEF Has
<1>5. \A g \in Goroutines : /\ Port(g)' = Port(g)
                            /\ Has(g)' <=> Has(g)
                            /\ gor'[g] = "serving" <=> gor[g] = "serving"
  BY <1>1, <1>4 DEF Has, Port
<1>6. PortInv'
  BY <1>5 DEF PortInv
<1> QED BY <1>2, <1>4, <1>6

\* stopPortForwards ends the listener of one port and no other.
LEMMA UnforwardInv ==
    ASSUME Typed, PortInv, NEW c \in Containers, Unforward(c), UNCHANGED portOf
    PROVE  /\ gor' \in [Goroutines -> States]
           /\ registered' \in [Ports -> Goroutines \cup {Nobody}]
           /\ \A g \in Goroutines : /\ gor'[g] # gor[g] => gor'[g] = "over"
                                    /\ Port(g) # portOf[c] => gor'[g] = gor[g]
           /\ PortInv'
<1> DEFINE q == portOf[c]
<1>1. q \in Ports
  BY DEF Typed
<1>2. registered' = [registered EXCEPT ![q] = Nobody]
  BY DEF Unforward, Forgotten
<1>3. \A g \in Goroutines : gor'[g] = IF registered[q] = g THEN "over" ELSE gor[g]
  BY NobodyAssumption DEF Unforward, Closed, Typed
<1>4. gor' \in [Goroutines -> States]
  BY <1>1 DEF Unforward, Closed, Typed, States
<1>5. \A g \in Goroutines : Port(g)' = Port(g)
  BY DEF Port
<1> HIDE DEF q
<1>6. ASSUME NEW g \in Goroutines, Port(g) # q PROVE gor'[g] = gor[g]
  BY <1>1, <1>3, <1>6, PortType DEF PortInv
<1>7. ASSUME NEW g \in Goroutines
      PROVE  gor'[g] = "serving" <=> registered'[Port(g)] = g
  <2>1. CASE Port(g) = q
    BY <1>1, <1>2, <1>3, <2>1, PortType DEF PortInv, Typed
  <2>2. CASE Port(g) # q
    BY <1>2, <1>6, <2>2, PortType DEF PortInv, Typed
  <2> QED BY <2>1, <2>2
<1>8. \A g \in Goroutines : Has(g)' => Has(g)
  BY <1>3 DEF Has
<1>9. ASSUME NEW p \in Ports, NEW g \in Goroutines, registered'[p] = g PROVE Port(g) = p
  BY <1>2, <1>9, PortType DEF PortInv, Typed
<1>10. PortInv'
  BY <1>5, <1>7, <1>8, <1>9 DEF PortInv
<1> QED BY <1>2, <1>1, <1>3, <1>4, <1>6, <1>10 DEF Typed, q

-----------------------------------------------------------------------------
LEMMA InitListen == Init => ListenInv
<1> SUFFICES ASSUME Init PROVE ListenInv
    OBVIOUS
<1>1. Typed
  BY DEF Init, Typed, States
<1>2. PortInv
  BY <1>1, PortType DEF Init, PortInv, Has
<1>3. OnceInv /\ RmInv
  BY DEF Init, OnceInv, RmInv, Goroutines
<1> QED BY <1>1, <1>2, <1>3 DEF ListenInv

LEMMA NextListen == ListenInv /\ [Next]_vars => ListenInv'
<1> SUFFICES ASSUME ListenInv, [Next]_vars PROVE ListenInv'
    OBVIOUS
<1> USE DEF ListenInv
<1>1. ASSUME UNCHANGED <<portOf, gor, registered>> PROVE PortInv'
  <2>1. \A g : /\ Port(g)' = Port(g)
               /\ Has(g)' <=> Has(g)
    BY <1>1 DEF Port, Has
  <2> QED BY <1>1, <2>1 DEF PortInv
<1>2. CASE UNCHANGED vars
  BY <1>1, <1>2 DEF vars, Typed, OnceInv, RmInv
<1>3. ASSUME NEW c \in Containers, Create(c) \/ Start(c) \/ Exit(c) PROVE ListenInv'
  <2>1. /\ UNCHANGED <<portOf, gor, registered, removing, removals, listed, restoring>>
        /\ creating' \in [Containers -> {"create", "start", "forward", "done"}]
        /\ \A d \in Containers : creating'[d] # "done" => creating[d] # "done"
    BY <1>3 DEF Create, Start, Exit, Typed
  <2> QED BY <1>1, <2>1 DEF Typed, OnceInv, RmInv
<1>4. ASSUME NEW c \in Containers, Forward(c) PROVE ListenInv'
  <2>1. gor[<<c, "create">>] = "none"
    BY <1>4 DEF Forward, OnceInv
  <2>2. /\ gor' = Spawned({c}, "create") /\ creating' = [creating EXCEPT ![c] = "done"]
        /\ UNCHANGED <<portOf, registered, removing, removals, listed, restoring>>
    BY <1>4 DEF Forward
  <2>3. gor' \in [Goroutines -> States] /\ PortInv'
    BY <2>1, <2>2, SpawnInv
  <2>4. \A g \in Goroutines : g # <<c, "create">> => gor'[g] = gor[g]
    BY <2>2 DEF Spawned, Goroutines
  <2>5. OnceInv'
    BY <2>2, <2>4 DEF OnceInv, Goroutines, Typed
  <2> QED BY <2>2, <2>3, <2>5 DEF Typed, RmInv
<1>5. CASE Restore
  <2>1. \A c \in listed : gor[<<c, "restore">>] = "none"
    BY <1>5 DEF Restore, OnceInv, Typed
  <2>2. /\ gor' = Spawned(listed, "restore") /\ restoring' = "done"
        /\ UNCHANGED <<portOf, registered, removing, removals, listed, creating>>
    BY <1>5 DEF Restore
  <2>3. gor' \in [Goroutines -> States] /\ PortInv'
    BY <2>1, <2>2, SpawnInv DEF Typed
  <2>4. \A c \in Containers : gor'[<<c, "create">>] = gor[<<c, "create">>]
    BY <2>2 DEF Spawned, Goroutines
  <2>5. OnceInv'
    BY <2>2, <2>4 DEF OnceInv
  <2> QED BY <2>2, <2>3, <2>5 DEF Typed, RmInv
<1>6. ASSUME NEW g \in Goroutines, Listen(g) PROVE ListenInv'
  <2>1. /\ gor[g] = "spawned"
        /\ UNCHANGED <<portOf, registered, removing, removals, listed, creating, restoring>>
        /\ \A h \in Goroutines : h # g => gor'[h] = gor[h]
        /\ gor'[g] \in {"over", "bound"}
        /\ gor'[g] = "bound" => ~Bound(Port(g))
        /\ gor' \in [Goroutines -> States]
    BY <1>6 DEF Listen, Typed, States
  <2>2. \A h \in Goroutines : Port(h)' = Port(h)
    BY <2>1 DEF Port
  <2>3. ASSUME NEW h \in Goroutines, h # g, Has(g)', Has(h)', Port(g) = Port(h) PROVE FALSE
    BY <2>1, <2>3 DEF Has, Bound
  <2>4. \A h, i \in Goroutines : Has(h)' /\ Has(i)' /\ Port(h) = Port(i) => h = i
    BY <2>1, <2>3 DEF Has, PortInv
  <2>5. \A h \in Goroutines : gor'[h] = "serving" <=> gor[h] = "serving"
    BY <2>1
  <2>6. PortInv'
    BY <2>1, <2>2, <2>4, <2>5 DEF PortInv, Typed
  <2>7. OnceInv'
    BY <2>1 DEF OnceInv, Goroutines
  <2> QED BY <2>1, <2>6, <2>7 DEF Typed, RmInv
<1>7. ASSUME NEW g \in Goroutines, Register(g) PROVE ListenInv'
  <2>1. /\ gor[g] = "bound" /\ Has(g) /\ Port(g) \in Ports
        /\ UNCHANGED <<portOf, removing, removals, listed, creating, restoring>>
        /\ \A h \in Goroutines : h # g => gor'[h] = gor[h]
        /\ gor'[g] = "serving"
        /\ gor' \in [Goroutines -> States]
        /\ registered' = [registered EXCEPT ![Port(g)] = g]
    BY <1>7, PortType DEF Register, Typed, States, Has
  <2>2. \A h \in Goroutines : Port(h)' = Port(h)
    BY <2>1 DEF Port
  <2>3. \A h \in Goroutines : Has(h)' <=> Has(h)
    BY <2>1 DEF Has
  <2>4. ASSUME NEW h \in Goroutines PROVE gor'[h] = "serving" <=> registered'[Port(h)] = h
    <3>1. CASE Port(h) = Port(g)
      <4>1. Has(h) => h = g
        BY <2>1, <3>1 DEF PortInv
      <4> QED BY <2>1, <3>1, <4>1 DEF Typed, Has
    <3>2. CASE Port(h) # Port(g)
      BY <2>1, <3>2, PortType DEF Typed, PortInv
    <3> QED BY <3>1, <3>2
  <2>5. \A p \in Ports, h \in Goroutines : registered'[p] = h => Port(h) = p
    BY <2>1 DEF PortInv, Typed
  <2>6. PortInv'
    BY <2>2, <2>3, <2>4, <2>5 DEF PortInv
  <2>7. OnceInv'
    BY <2>1 DEF OnceInv, Goroutines
  <2> QED BY <2>1, <2>6, <2>7 DEF Typed, RmInv
<1>8. CASE List
  BY <1>1, <1>8 DEF List, Typed, OnceInv, RmInv
<1>9. ASSUME NEW c \in Containers, RmList(c) \/ RmStop(c) \/ RmRemove(c) PROVE ListenInv'
  <2>1. /\ UNCHANGED <<portOf, gor, registered, creating, listed, restoring>>
        /\ removing' \in [Containers -> {"list", "unforward", "stop", "remove"}]
        /\ removals' \in [Containers -> Nat]
    BY <1>9 DEF RmList, RmStop, RmRemove, Step, Typed
  <2>2. RmInv'
    BY <1>9 DEF RmList, RmStop, RmRemove, Step, Typed, RmInv
  <2> QED BY <1>1, <2>1, <2>2 DEF Typed, OnceInv
<1>10. ASSUME NEW c \in Containers, RmUnforward(c) PROVE ListenInv'
  <2>1. /\ Unforward(c) /\ removing[c] = "unforward"
        /\ removing' = [removing EXCEPT ![c] = "stop"]
        /\ UNCHANGED <<portOf, removals, creating, listed, restoring>>
    BY <1>10 DEF RmUnforward, Step
  <2>2. /\ gor' \in [Goroutines -> States]
        /\ registered' \in [Ports -> Goroutines \cup {Nobody}]
        /\ \A g \in Goroutines : gor'[g] # gor[g] => gor[g] = "serving"
        /\ PortInv'
    <3>1. \A g \in Goroutines : gor'[g] # gor[g] => registered[portOf[c]] = g
      BY <2>1 DEF Unforward, Closed, Typed
    <3>2. portOf[c] \in Ports
      BY DEF Typed
    <3>3. \A g \in Goroutines : registered[portOf[c]] = g => gor[g] = "serving"
      BY <3>2, NobodyAssumption DEF PortInv
    <3> QED BY <2>1, <3>1, <3>3, UnforwardInv
  <2>3. OnceInv'
    BY <2>1, <2>2 DEF OnceInv, Goroutines
  <2>4. RmInv'
    BY <2>1 DEF RmInv, Typed
  <2> QED BY <2>1, <2>2, <2>3, <2>4 DEF Typed
<1> QED BY <1>2, <1>3, <1>4, <1>5, <1>6, <1>7, <1>8, <1>9, <1>10 DEF Next

\* Whatever creates, restores and removals overlap, whoever accepts connections on
\* a port is the goroutine that stopPortForwards finds under it.
THEOREM ListenersClosable == Spec => []Closable
<1>1. ListenInv => Closable
  BY DEF ListenInv, PortInv, Closable, Has
<1> QED BY InitListen, NextListen, <1>1, PTL DEF Spec

-----------------------------------------------------------------------------
\* A container's port is chosen once, and removals are only counted up.
LEMMA PortsFixed ==
    ListenInv /\ [Next]_vars =>
        portOf' = portOf /\ \A c \in Containers : removals'[c] = 0 => removals[c] = 0
<1> SUFFICES ASSUME ListenInv, [Next]_vars
             PROVE  portOf' = portOf /\ \A c \in Containers : removals'[c] = 0 => removals[c] = 0
    OBVIOUS
<1>1. CASE UNCHANGED vars \/ List \/ Restore
  BY <1>1 DEF vars, List, Restore
<1>2. ASSUME NEW h \in Goroutines, Listen(h) \/ Register(h)
      PROVE  UNCHANGED <<portOf, removals>>
  BY <1>2 DEF Listen, Register
<1>3. ASSUME NEW d \in Containers,
             \/ Create(d) \/ Start(d) \/ Forward(d) \/ Exit(d)
             \/ RmUnforward(d) \/ RmStop(d) \/ RmRemove(d)
      PROVE  UNCHANGED <<portOf, removals>>
  BY <1>3 DEF Create, Start, Forward, Exit, RmUnforward, RmStop, RmRemove
<1>4. ASSUME NEW d \in Containers, RmList(d)
      PROVE  portOf' = portOf /\ \A c \in Containers : removals'[c] = 0 => removals[c] = 0
  BY <1>4 DEF RmList, ListenInv, Typed
<1> QED BY <1>1, <1>2, <1>3, <1>4 DEF Next

\* The action of StaysForwarded.
Stays(c) == PortAlone(c) /\ Served(c) /\ removals'[c] = 0 => Served(c)'

LEMMA StepStays == ListenInv /\ [Next]_vars => \A c \in Containers : Stays(c)
<1> SUFFICES ASSUME ListenInv, [Next]_vars, NEW c \in Containers, PortAlone(c), Served(c),
                    removals'[c] = 0
             PROVE  Served(c)'
    BY DEF Stays
<1>1. PICK g \in Goroutines : Port(g) = portOf[c] /\ gor[g] = "serving"
  BY DEF Served
<1>2. portOf' = portOf
  BY PortsFixed
<1> SUFFICES gor'[g] = "serving"
    BY <1>1, <1>2 DEF Served, Port
<1>3. CASE gor' = gor
  BY <1>1, <1>3
<1>4. ASSUME NEW h \in Goroutines, Listen(h) \/ Register(h) PROVE gor'[g] = "serving"
  BY <1>1, <1>4 DEF Listen, Register, ListenInv, Typed
<1>5. ASSUME NEW d \in Containers, Forward(d) PROVE gor'[g] = "serving"
  <2>1. gor[<<d, "create">>] = "none" /\ UNCHANGED registered /\ gor' = Spawned({d}, "create")
    BY <1>5 DEF ListenInv, Forward, OnceInv
  <2>2. \A e \in {d} : gor[<<e, "create">>] = "none"
    BY <2>1
  <2>3. \A h \in Goroutines : Has(h) \/ Has(h)' => gor'[h] = gor[h]
    BY <1>2, <2>1, <2>2, SpawnInv DEF ListenInv
  <2> QED BY <1>1, <2>3 DEF Has
<1>6. CASE Restore
  <2>1. /\ \A d \in listed : gor[<<d, "restore">>] = "none"
        /\ UNCHANGED registered /\ gor' = Spawned(listed, "restore")
    BY <1>6 DEF ListenInv, Restore, OnceInv, Typed
  <2>2. listed \subseteq Containers
    BY DEF ListenInv, Typed
  <2>3. \A h \in Goroutines : Has(h) \/ Has(h)' => gor'[h] = gor[h]
    BY <1>2, <2>1, <2>2, SpawnInv DEF ListenInv
  <2> QED BY <1>1, <2>3 DEF Has
<1>7. ASSUME NEW d \in Containers, RmUnforward(d) PROVE gor'[g] = "serving"
  <2>1. d # c
    BY <1>7 DEF RmUnforward, ListenInv, RmInv, Typed
  <2>2. portOf[d] # portOf[c]
    BY <2>1 DEF PortAlone
  <2> QED BY <1>1, <1>2, <1>7, <2>2, UnforwardInv DEF RmUnforward, ListenInv
<1>8. ASSUME NEW d \in Containers,
             Create(d) \/ Start(d) \/ Exit(d) \/ RmList(d) \/ RmStop(d) \/ RmRemove(d)
      PROVE  gor' = gor
  BY <1>8 DEF Create, Start, Exit, RmList, RmStop, RmRemove
<1>9. UNCHANGED vars \/ List => gor' = gor
  BY DEF vars, List
<1> QED BY <1>3, <1>4, <1>5, <1>6, <1>7, <1>8, <1>9 DEF Next

\* A container whose host port no other asks for keeps its listener until its own
\* rm: no restore and no removal of another container takes it.
THEOREM ForwardKept == Spec => StaysForwarded
<1>1. ListenInv /\ [Next]_vars => [\A c \in Containers :
          PortAlone(c) /\ Served(c) /\ removals'[c] = 0 => Served(c)']_vars
  BY StepStays DEF Stays
<1> QED BY InitListen, NextListen, <1>1, PTL DEF Spec, StaysForwarded
-----------------------------------------------------------------------------
\* Whoever gave up, of those that nobody closed nor the system refused, found the port
\* with another.
GaveUp ==
    \A g \in Goroutines :
        PortAlone(g[1]) /\ removals[g[1]] = 0 /\ gor[g] = "over" =>
            g \in refused \/ \E h \in Goroutines : Port(h) = Port(g) /\ Has(h)

LEMMA RefusedGrows == [Next]_vars => refused \subseteq refused'
  BY DEF Next, vars, Create, Start, Forward, Exit, Listen, Register, List, Restore,
         RmList, RmUnforward, RmStop, RmRemove

LEMMA NextGaveUp == ListenInv /\ GaveUp /\ [Next]_vars => GaveUp'
<1> SUFFICES ASSUME ListenInv, GaveUp, [Next]_vars PROVE GaveUp'
  OBVIOUS
<1> SUFFICES ASSUME NEW g \in Goroutines,
                    PortAlone(g[1]), removals'[g[1]] = 0, gor'[g] = "over",
                    g \notin refused'
             PROVE  \E h \in Goroutines : Port(h) = Port(g) /\ Has(h)'
  <2>1. portOf' = portOf
    BY PortsFixed
  <2>2. \A h : Port(h)' = Port(h) /\ (PortAlone(h[1])' <=> PortAlone(h[1]))
    BY <2>1 DEF Port, PortAlone
  <2> QED BY <2>2 DEF GaveUp
<1>1. /\ portOf' = portOf /\ removals[g[1]] = 0 /\ g[1] \in Containers
      /\ portOf \in [Containers -> Ports] /\ gor \in [Goroutines -> States]
  BY PortsFixed DEF Goroutines, ListenInv, Typed
<1>0. refused \subseteq refused'
  BY RefusedGrows
<1>2. gor[g] = "over" => \E h \in Goroutines : Port(h) = Port(g) /\ Has(h)
  BY <1>0, <1>1 DEF GaveUp
<1>3. CASE gor' = gor
  BY <1>2, <1>3 DEF Has
<1>4. ASSUME NEW f \in Goroutines, Listen(f)
      PROVE  \E h \in Goroutines : Port(h) = Port(g) /\ Has(h)'
  <2>1. /\ gor[f] = "spawned" /\ \A h \in Goroutines : h # f => gor'[h] = gor[h]
        /\ gor'[f] = "over" => Bound(Port(f)) \/ f \in refused'
    BY <1>1, <1>4 DEF Listen
  <2>2. \A h \in Goroutines : Has(h) => Has(h)'
    BY <2>1 DEF Has
  <2>3. \E h \in Goroutines : Port(h) = Port(g) /\ Has(h)
    BY <1>2, <2>1 DEF Bound, Has
  <2> QED BY <2>2, <2>3
<1>5. ASSUME NEW f \in Goroutines, Register(f)
      PROVE  \E h \in Goroutines : Port(h) = Port(g) /\ Has(h)'
  <2>1. /\ gor[f] = "bound" /\ gor'[f] = "serving"
        /\ \A h \in Goroutines : h # f => gor'[h] = gor[h]
    BY <1>1, <1>5 DEF Register
  <2> QED BY <1>2, <2>1 DEF Has
<1>6. ASSUME NEW cs \in SUBSET Containers, NEW by \in {"create", "restore"},
             \A d \in cs : gor[<<d, by>>] = "none", gor' = Spawned(cs, by),
             UNCHANGED registered
      PROVE  \E h \in Goroutines : Port(h) = Port(g) /\ Has(h)'
  <2>1. \A h \in Goroutines : Has(h) \/ Has(h)' => gor'[h] = gor[h]
    BY <1>1, <1>6, SpawnInv DEF ListenInv
  <2>2. gor[g] = "over"
    BY <1>6 DEF Spawned
  <2> QED BY <1>2, <2>1, <2>2 DEF Has
<1>7. ASSUME NEW d \in Containers, Forward(d)
      PROVE  \E h \in Goroutines : Port(h) = Port(g) /\ Has(h)'
  <2>1. \A e \in {d} : gor[<<e, "create">>] = "none"
    BY <1>7 DEF ListenInv, Forward, OnceInv
  <2> QED BY <1>6, <1>7, <2>1 DEF Forward
<1>8. CASE Restore
  <2>1. listed \in SUBSET Containers /\ \A d \in listed : gor[<<d, "restore">>] = "none"
    BY <1>8 DEF ListenInv, Restore, OnceInv, Typed
  <2> QED BY <1>6, <1>8, <2>1 DEF Restore
<1>9. ASSUME NEW d \in Containers, RmUnforward(d)
      PROVE  \E h \in Goroutines : Port(h) = Port(g) /\ Has(h)'
  <2>1. d # g[1]
    BY <1>1, <1>9 DEF RmUnforward, ListenInv, RmInv, Typed
  <2>2. portOf[d] # Port(g)
    BY <2>1 DEF PortAlone, Port
  <2>3. \A h \in Goroutines : Port(h) # portOf[d] => gor'[h] = gor[h]
    BY <1>1, <1>9, UnforwardInv DEF RmUnforward, ListenInv
  <2> QED BY <1>2, <2>2, <2>3 DEF Has
<1>10. ASSUME NEW d \in Containers,
             Create(d) \/ Start(d) \/ Exit(d) \/ RmList(d) \/ RmStop(d) \/ RmRemove(d)
      PROVE  gor' = gor
  BY <1>10 DEF Create, Start, Exit, RmList, RmStop, RmRemove
<1>11. UNCHANGED vars \/ List => gor' = gor
  BY DEF vars, List
<1> QED BY <1>3, <1>4, <1>5, <1>7, <1>8, <1>9, <1>10, <1>11 DEF Next

\* A forward that was asked for, of a port that no other container wants, is lost by
\* the system's own refusal of the port to its goroutine, and by nothing else.
THEOREM ForwardNotLost == Spec => []ForwardTried
<1>1. Init => GaveUp
  BY DEF Init, GaveUp
<1>2. (ListenInv /\ GaveUp) /\ [Next]_vars => (ListenInv /\ GaveUp)'
  BY NextListen, NextGaveUp
<1>3. ListenInv /\ GaveUp => ForwardTried
  <2> SUFFICES ASSUME ListenInv, GaveUp, NEW g \in Goroutines, PortAlone(g[1]),
                      gor[g] # "none", g \notin refused, ~(removals[g[1]] > 0),
                      ~Trying(g[1])
               PROVE  Served(g[1])
    BY DEF ForwardTried
  <2>1. /\ g[1] \in Containers /\ g[2] \in {"create", "restore"} /\ g = <<g[1], g[2]>>
        /\ removals[g[1]] = 0 /\ Port(g) = portOf[g[1]]
        /\ gor[g] \in {"serving", "over", "none", "spawned", "bound"}
    BY DEF Goroutines, ListenInv, Typed, States, Port
  <2>2. CASE gor[g] = "serving"
    BY <2>1, <2>2 DEF Served
  <2>3. CASE gor[g] = "over"
    <3>1. PICK h \in Goroutines : Port(h) = portOf[g[1]] /\ Has(h)
      BY <2>1, <2>3 DEF GaveUp
    <3>2. h[1] = g[1]
      BY <3>1 DEF PortAlone, Port, Goroutines
    <3>3. gor[h] # "bound"
      BY <3>2 DEF Trying, Goroutines
    <3> QED BY <3>1, <3>3 DEF Served, Has
  <2>4. gor[g] \in {"serving", "over"}
    BY <2>1 DEF Trying
  <2> QED BY <2>2, <2>3, <2>4
<1> QED BY InitListen, <1>1, <1>2, <1>3, PTL DEF Spec

-----------------------------------------------------------------------------
\* All variables keep their types; above all, what is registered is a goroutine.
THEOREM ListenerTypes == Spec => []TypeOK
<1> DEFINE Inv == ListenInv /\ TypeOK
<1>1. Init => TypeOK
  BY ListenAssumption DEF Init, TypeOK
<1>2. Inv /\ [Next]_vars => Inv'
  <2> SUFFICES ASSUME Inv, [Next]_vars PROVE TypeOK'
    BY NextListen
  <2>1. Typed'
    BY NextListen DEF ListenInv
  <2>2. /\ status' \in [Containers -> {"none", "created", "running", "stopped"}]
        /\ removals' \in [Containers -> 0..MaxRm]
        /\ restoring' \in {"idle", "listed", "done"} /\ refused' \in SUBSET Goroutines
    <3>1. ASSUME NEW c \in Containers,
                 \/ Create(c) \/ Start(c) \/ Forward(c) \/ Exit(c)
                 \/ RmUnforward(c) \/ RmStop(c) \/ RmRemove(c)
          PROVE  /\ status' \in [Containers -> {"none", "created", "running", "stopped"}]
                 /\ UNCHANGED <<removals, restoring, refused>>
      BY <3>1 DEF TypeOK, Create, Start, Forward, Exit, RmUnforward, RmStop, RmRemove
    <3>2. ASSUME NEW c \in Containers, RmList(c)
          PROVE  removals' \in [Containers -> 0..MaxRm] /\ UNCHANGED <<status, restoring, refused>>
      BY <3>2, ListenAssumption DEF TypeOK, RmList
    <3>3. ASSUME NEW g \in Goroutines, Listen(g) \/ Register(g)
          PROVE  refused' \in SUBSET Goroutines /\ UNCHANGED <<status, removals, restoring>>
      BY <3>3 DEF TypeOK, Listen, Register
    <3>4. CASE List \/ Restore \/ UNCHANGED vars
      BY <3>4 DEF List, Restore, vars, TypeOK
    <3> QED BY <3>1, <3>2, <3>3, <3>4 DEF Next, TypeOK
  <2> QED BY <2>1, <2>2 DEF Typed, TypeOK, States
<1> QED BY InitListen, <1>1, <1>2, PTL DEF Spec
=============================================================================
