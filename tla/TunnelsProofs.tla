---------------------------- MODULE TunnelsProofs ----------------------------
(* Theorems about Tunnels, for any clients and ports.                         *)
EXTENDS Tunnels, TLAPS

\* Channel t is nowhere: not queued, not filed, not bridged.
Nowhere(t) ==
    /\ ~Queued(t)
    /\ \A p \in Forwarded : pending[p] # t
    /\ \A u \in Clients : bridge[u] # t

\* Each channel is in one place at a time, and filed under its own port.
OnePlace ==
    /\ \A t \in Clients : client[t] \in {"new", "connect"} => Nowhere(t)
    /\ \A i, j \in 1..Len(dialled) : dialled[i] = dialled[j] => i = j
    /\ \A i \in 1..Len(dialled) :
          /\ \A p \in Forwarded : pending[p] # dialled[i]
          /\ \A u \in Clients : bridge[u] # dialled[i]
    /\ \A p \in Forwarded : pending[p] # NoChannel =>
          /\ PortOf[pending[p]] = p
          /\ \A u \in Clients : bridge[u] # pending[p]
    /\ Exclusive

TunnelInv == TunnelTypeOK /\ OnePlace

LEMMA InitTunnel == TunnelInit => TunnelInv
  BY TunnelAssumption
  DEF TunnelInit, TunnelInv, TunnelTypeOK, OnePlace, Nowhere, Queued, Exclusive

\* A channel joins the queue.
LEMMA Dialled ==
    ASSUME TunnelInv, NEW t \in Clients, client[t] = "connect",
           dialled' = Append(dialled, t), NEW s \in {"poll", "closed"},
           client' = [client EXCEPT ![t] = s], UNCHANGED <<pending, bridge>>,
           calm' \subseteq Forwarded
    PROVE  TunnelInv'
<1> USE TunnelAssumption
<1>1. TunnelTypeOK'
  BY DEF TunnelInv, TunnelTypeOK
<1>2. Nowhere(t) /\ dialled \in Seq(Clients)
  BY DEF TunnelInv, OnePlace, TunnelTypeOK
<1>3. /\ Len(dialled') = Len(dialled) + 1 /\ dialled'[Len(dialled) + 1] = t
      /\ \A i \in 1..Len(dialled) : dialled'[i] = dialled[i]
      /\ Len(dialled) \in Nat
  BY <1>2
<1>4. \A u \in Clients : client'[u] \in {"new", "connect"} =>
          u # t /\ client[u] \in {"new", "connect"}
  BY DEF TunnelInv, TunnelTypeOK
<1>5. \A u \in Clients : client'[u] \in {"new", "connect"} => Nowhere(u)'
  BY <1>3, <1>4 DEF TunnelInv, OnePlace, Nowhere, Queued
<1>6. \A i, j \in 1..Len(dialled') : dialled'[i] = dialled'[j] => i = j
  BY <1>2, <1>3 DEF TunnelInv, OnePlace, Nowhere, Queued
<1>7. \A i \in 1..Len(dialled') :
          /\ \A p \in Forwarded : pending'[p] # dialled'[i]
          /\ \A u \in Clients : bridge'[u] # dialled'[i]
  BY <1>2, <1>3 DEF TunnelInv, OnePlace, Nowhere
<1> QED BY <1>1, <1>5, <1>6, <1>7 DEF TunnelInv, OnePlace, Exclusive

\* A channel is filed: the head of the queue.
LEMMA Filed == TunnelInv /\ File => TunnelInv'
<1> SUFFICES ASSUME TunnelInv, File PROVE TunnelInv'
    OBVIOUS
<1> USE TunnelAssumption
<1> DEFINE h == Head(dialled)
<1>1. dialled \in Seq(Clients) /\ dialled # <<>> /\ Len(dialled) >= 1
  BY DEF TunnelInv, TunnelTypeOK, File
<1>2. /\ h \in Clients /\ h = dialled[1] /\ dialled' \in Seq(Clients)
      /\ Len(dialled') = Len(dialled) - 1 /\ Len(dialled) \in Nat
      /\ \A i \in 1..Len(dialled') : dialled'[i] = dialled[i + 1]
      /\ 1 \in 1..Len(dialled) /\ \A i \in 1..Len(dialled') : i + 1 \in 1..Len(dialled)
  BY <1>1 DEF File
<1>3. /\ pending \in [Forwarded -> Clients \cup {NoChannel}] /\ PortOf[h] \in Forwarded
      /\ pending' = [pending EXCEPT ![PortOf[h]] = h] /\ UNCHANGED <<client, bridge, calm>>
  BY <1>2 DEF File, Slot, TunnelInv, TunnelTypeOK
<1>4. TunnelTypeOK'
  BY <1>2, <1>3 DEF TunnelInv, TunnelTypeOK
<1>5. \A i \in 1..Len(dialled') : dialled'[i] # h
  BY <1>2 DEF TunnelInv, OnePlace
<1>6. \A u \in Clients : bridge[u] # h
  BY <1>2 DEF TunnelInv, OnePlace
<1>7. \A t \in Clients : client'[t] \in {"new", "connect"} => Nowhere(t)'
  <2> SUFFICES ASSUME NEW t \in Clients, client'[t] \in {"new", "connect"}
               PROVE  Nowhere(t)'
      OBVIOUS
  <2>1. Nowhere(t)
    BY <1>3 DEF TunnelInv, OnePlace
  <2>2. t # h
    BY <2>1, <1>2 DEF Nowhere, Queued
  <2>3. ~Queued(t)'
    BY <2>1, <1>2 DEF Nowhere, Queued
  <2> QED BY <2>1, <2>2, <2>3, <1>3 DEF Nowhere
<1>8. \A i, j \in 1..Len(dialled') : dialled'[i] = dialled'[j] => i = j
  <2> SUFFICES ASSUME NEW i \in 1..Len(dialled'), NEW j \in 1..Len(dialled'),
                      dialled'[i] = dialled'[j]
               PROVE  i = j
      OBVIOUS
  <2>1. /\ i + 1 \in 1..Len(dialled) /\ j + 1 \in 1..Len(dialled)
        /\ dialled[i + 1] = dialled[j + 1]
    BY <1>2
  <2>2. i + 1 = j + 1
    BY <2>1 DEF TunnelInv, OnePlace
  <2> QED BY <2>2, <1>2
<1>9. \A i \in 1..Len(dialled') :
          /\ \A p \in Forwarded : pending'[p] # dialled'[i]
          /\ \A u \in Clients : bridge'[u] # dialled'[i]
  BY <1>2, <1>3, <1>5 DEF TunnelInv, OnePlace
<1>10. \A p \in Forwarded : pending'[p] # NoChannel =>
          /\ PortOf[pending'[p]] = p
          /\ \A u \in Clients : bridge'[u] # pending'[p]
  BY <1>3, <1>6 DEF TunnelInv, OnePlace
<1> QED BY <1>3, <1>4, <1>7, <1>8, <1>9, <1>10 DEF TunnelInv, OnePlace, Exclusive

\* A channel without a header leaves the queue.
LEMMA Discarded == TunnelInv /\ Discard => TunnelInv'
<1> SUFFICES ASSUME TunnelInv, Discard PROVE TunnelInv'
    OBVIOUS
<1>1. dialled \in Seq(Clients) /\ dialled # <<>> /\ Len(dialled) >= 1
  BY DEF TunnelInv, TunnelTypeOK, Discard
<1>2. /\ dialled' \in Seq(Clients)
      /\ Len(dialled') = Len(dialled) - 1 /\ Len(dialled) \in Nat
      /\ \A i \in 1..Len(dialled') :
            i + 1 \in 1..Len(dialled) /\ dialled'[i] = dialled[i + 1]
      /\ UNCHANGED <<client, pending, bridge>> /\ calm' \subseteq calm
  BY <1>1 DEF Discard, Stirred
<1>3. TunnelTypeOK'
  BY <1>2 DEF TunnelInv, TunnelTypeOK
<1>4. \A t \in Clients : client'[t] \in {"new", "connect"} => Nowhere(t)'
  BY <1>2 DEF TunnelInv, OnePlace, Nowhere, Queued
<1>5. \A i, j \in 1..Len(dialled') : dialled'[i] = dialled'[j] => i = j
  <2> SUFFICES ASSUME NEW i \in 1..Len(dialled'), NEW j \in 1..Len(dialled'),
                      dialled'[i] = dialled'[j]
               PROVE  i = j
      OBVIOUS
  <2>1. /\ i + 1 \in 1..Len(dialled) /\ j + 1 \in 1..Len(dialled)
        /\ dialled[i + 1] = dialled[j + 1]
    BY <1>2
  <2>2. i + 1 = j + 1
    BY <2>1 DEF TunnelInv, OnePlace
  <2> QED BY <2>2, <1>2
<1> QED BY <1>2, <1>3, <1>4, <1>5 DEF TunnelInv, OnePlace, Exclusive

\* A client takes the channel filed under its port.
LEMMA Polled == \A t \in Clients : TunnelInv /\ Poll(t) => TunnelInv'
<1> SUFFICES ASSUME NEW t \in Clients, TunnelInv, Poll(t) PROVE TunnelInv'
    OBVIOUS
<1> USE TunnelAssumption
<1> DEFINE ch == pending[PortOf[t]]
<1>1. /\ ch \in Clients /\ PortOf[t] \in Forwarded
      /\ bridge' = [bridge EXCEPT ![t] = ch]
      /\ pending' = [pending EXCEPT ![PortOf[t]] = NoChannel]
      /\ client' = [client EXCEPT ![t] = "bridged"] /\ UNCHANGED <<dialled, calm>>
      /\ client[t] = "poll" /\ NoChannel \notin Clients
  BY DEF Poll, Slot, Taken, TunnelInv, TunnelTypeOK
<1>2. TunnelTypeOK'
  BY <1>1 DEF TunnelInv, TunnelTypeOK
<1>3. PortOf[ch] = PortOf[t] /\ \A u \in Clients : bridge[u] # ch
  BY <1>1 DEF TunnelInv, OnePlace
<1>4. /\ \A u \in Clients : u # t => bridge'[u] = bridge[u]
      /\ bridge'[t] = ch
      /\ \A p \in Forwarded : pending'[p] \in {pending[p], NoChannel}
  BY <1>1 DEF TunnelInv, TunnelTypeOK
<1>5. \A p \in Forwarded : p # PortOf[t] => pending'[p] = pending[p] /\ pending[p] # ch
  BY <1>1, <1>3 DEF TunnelInv, OnePlace, TunnelTypeOK
<1>6. pending'[PortOf[t]] = NoChannel
  BY <1>1 DEF TunnelInv, TunnelTypeOK
<1>7. \A u \in Clients : client'[u] \in {"new", "connect"} => Nowhere(u)'
  <2> SUFFICES ASSUME NEW u \in Clients, client'[u] \in {"new", "connect"}
               PROVE  Nowhere(u)'
      OBVIOUS
  <2>1. Nowhere(u)
    BY <1>1 DEF TunnelInv, OnePlace, TunnelTypeOK
  <2>2. u # ch
    BY <2>1, <1>1 DEF Nowhere
  <2> QED BY <2>1, <2>2, <1>1, <1>4 DEF Nowhere, Queued
<1>8. \A i \in 1..Len(dialled') :
          /\ \A p \in Forwarded : pending'[p] # dialled'[i]
          /\ \A u \in Clients : bridge'[u] # dialled'[i]
  <2>1. \A i \in 1..Len(dialled) : dialled[i] # ch /\ dialled[i] \in Clients
    BY <1>1 DEF TunnelInv, OnePlace, TunnelTypeOK
  <2> QED BY <2>1, <1>1, <1>4 DEF TunnelInv, OnePlace
<1>9. \A p \in Forwarded : pending'[p] # NoChannel =>
          /\ PortOf[pending'[p]] = p
          /\ \A u \in Clients : bridge'[u] # pending'[p]
  BY <1>4, <1>5, <1>6 DEF TunnelInv, OnePlace
<1>10. Exclusive'
  BY <1>3, <1>4 DEF TunnelInv, OnePlace, Exclusive
<1> QED BY <1>1, <1>2, <1>7, <1>8, <1>9, <1>10 DEF TunnelInv, OnePlace

LEMMA NextTunnel == TunnelInv /\ [TunnelNext]_tunnelVars => TunnelInv'
<1> SUFFICES ASSUME TunnelInv, [TunnelNext]_tunnelVars PROVE TunnelInv'
    OBVIOUS
<1>1. CASE UNCHANGED tunnelVars
  BY <1>1 DEF tunnelVars, TunnelInv, TunnelTypeOK, OnePlace, Nowhere, Queued, Exclusive
<1>2. ASSUME NEW t \in Clients, Accept(t) \/ Refuse(t) \/ Timeout(t) \/ End(t)
      PROVE  TunnelInv'
  <2>1. TunnelTypeOK' /\ UNCHANGED <<dialled, pending, bridge>>
    BY <1>2 DEF Accept, Refuse, Timeout, End, Stirred, TunnelInv, TunnelTypeOK
  <2>2. \A u \in Clients : client'[u] \in {"new", "connect"} =>
            client[u] \in {"new", "connect"}
    BY <1>2 DEF Accept, Refuse, Timeout, End, TunnelInv, TunnelTypeOK
  <2> QED BY <2>1, <2>2 DEF TunnelInv, OnePlace, Nowhere, Queued, Exclusive
<1>3. ASSUME NEW t \in Clients, Connect(t) \/ Abandon(t) PROVE TunnelInv'
  <2>1. calm' \subseteq Forwarded
    BY <1>3 DEF Connect, Abandon, Stirred, TunnelInv, TunnelTypeOK
  <2> QED BY <1>3, <2>1, Dialled DEF Connect, Abandon
<1> QED BY <1>1, <1>2, <1>3, Filed, Discarded, Polled DEF TunnelNext

\* No two TCP clients share a data channel, and a channel is only ever bridged
\* with a client of its port: however clients overlap, channels come late and
\* answers get lost, nobody's bytes reach another port's container.
THEOREM ChannelsExclusive == TunnelSpec => []Exclusive
<1>1. TunnelInv => Exclusive
  BY DEF TunnelInv, OnePlace
<1> QED BY InitTunnel, NextTunnel, <1>1, PTL DEF TunnelSpec
-----------------------------------------------------------------------------
\* On a calm port one client at most awaits its channel, and every channel that
\* is queued or filed is awaited.
Awaits(t) == client[t] \in {"connect", "poll"}
OneAwaits ==
    /\ \A t, u \in Clients :
          PortOf[t] \in calm /\ PortOf[t] = PortOf[u] /\ Awaits(t) /\ Awaits(u) => t = u
    /\ \A i \in 1..Len(dialled) :
          PortOf[dialled[i]] \in calm => client[dialled[i]] = "poll"
    /\ \A p \in calm : pending[p] # NoChannel => client[pending[p]] = "poll"
    /\ OwnTunnel

CalmInv == TunnelInv /\ OneAwaits

LEMMA InitCalm == TunnelInit => CalmInv
<1> SUFFICES ASSUME TunnelInit PROVE CalmInv
    OBVIOUS
<1>1. OneAwaits
  BY TunnelAssumption DEF TunnelInit, OneAwaits, Awaits, OwnTunnel
<1> QED BY <1>1, InitTunnel DEF CalmInv

LEMMA NextCalm == CalmInv /\ [TunnelNext]_tunnelVars => CalmInv'
<1> SUFFICES ASSUME CalmInv, [TunnelNext]_tunnelVars PROVE CalmInv'
    OBVIOUS
<1> USE TunnelAssumption
<1>t. /\ client \in [Clients -> {"new", "connect", "poll", "bridged", "over", "closed"}]
      /\ dialled \in Seq(Clients) /\ Len(dialled) \in Nat
      /\ \A i \in 1..Len(dialled) : dialled[i] \in Clients
      /\ pending \in [Forwarded -> Clients \cup {NoChannel}]
      /\ bridge \in [Clients -> Clients \cup {NoChannel}] /\ calm \subseteq Forwarded
      /\ TunnelInv' /\ OneAwaits /\ OnePlace
  BY NextTunnel DEF CalmInv, TunnelInv, TunnelTypeOK
<1> SUFFICES OneAwaits'
    BY <1>t DEF CalmInv
<1>1. CASE UNCHANGED tunnelVars
  BY <1>t, <1>1 DEF tunnelVars, OneAwaits, Awaits, OwnTunnel
<1>2. ASSUME NEW t \in Clients, Accept(t) PROVE OneAwaits'
  <2>1. /\ client[t] = "new" /\ client' = [client EXCEPT ![t] = "connect"]
        /\ UNCHANGED <<dialled, pending, bridge>> /\ calm' \subseteq calm
        /\ PortOf[t] \in calm' => Alone(t)
    BY <1>2, <1>t DEF Accept, Stirred
  <2>2. /\ \A i \in 1..Len(dialled) : dialled[i] # t
        /\ \A p \in Forwarded : pending[p] # t
    BY <1>t, <2>1 DEF OnePlace, Nowhere, Queued
  <2>3. \A u, v \in Clients :
          PortOf[u] \in calm' /\ PortOf[u] = PortOf[v] /\ Awaits(u)' /\ Awaits(v)' => u = v
    BY <1>t, <2>1 DEF OneAwaits, Awaits, Alone
  <2> QED BY <1>t, <2>1, <2>2, <2>3 DEF OneAwaits, OwnTunnel
<1>3. ASSUME NEW t \in Clients, Connect(t) PROVE OneAwaits'
  <2>1. /\ client[t] = "connect" /\ client' = [client EXCEPT ![t] = "poll"]
        /\ dialled' = Append(dialled, t) /\ UNCHANGED <<pending, bridge, calm>>
    BY <1>3 DEF Connect
  <2>2. /\ Len(dialled') = Len(dialled) + 1 /\ dialled'[Len(dialled) + 1] = t
        /\ \A i \in 1..Len(dialled) : dialled'[i] = dialled[i]
    BY <1>t, <2>1
  <2>3. \A u \in Clients : (Awaits(u)' <=> Awaits(u))
    BY <1>t, <2>1 DEF Awaits
  <2>4. \A i \in 1..Len(dialled') :
          PortOf[dialled'[i]] \in calm' => client'[dialled'[i]] = "poll"
    BY <1>t, <2>1, <2>2 DEF OneAwaits
  <2>5. \A p \in calm' : pending'[p] # NoChannel => client'[pending'[p]] = "poll"
    BY <1>t, <2>1 DEF OneAwaits
  <2> QED BY <1>t, <2>1, <2>3, <2>4, <2>5 DEF OneAwaits, OwnTunnel
<1>4. ASSUME NEW t \in Clients, Refuse(t) \/ End(t) PROVE OneAwaits'
  <2>1. /\ client[t] # "poll" /\ UNCHANGED <<dialled, pending, bridge, calm>>
        /\ \A u \in Clients : u # t => client'[u] = client[u]
        /\ client'[t] \in {"closed", "over"}
    BY <1>4, <1>t DEF Refuse, End
  <2>2. \A u \in Clients : (Awaits(u)' => Awaits(u))
    BY <2>1 DEF Awaits
  <2> QED BY <1>t, <2>1, <2>2 DEF OneAwaits, OwnTunnel
<1>5. ASSUME NEW t \in Clients, Abandon(t) PROVE OneAwaits'
  <2>1. /\ client[t] = "connect" /\ dialled' = Append(dialled, t)
        /\ UNCHANGED <<pending, bridge>> /\ calm' = calm \ {PortOf[t]}
        /\ \A u \in Clients : u # t => client'[u] = client[u]
        /\ client'[t] = "closed"
    BY <1>5, <1>t DEF Abandon, Stirred
  <2>2. /\ Len(dialled') = Len(dialled) + 1 /\ dialled'[Len(dialled) + 1] = t
        /\ \A i \in 1..Len(dialled) : dialled'[i] = dialled[i]
    BY <1>t, <2>1
  <2>3. \A i \in 1..Len(dialled') :
          PortOf[dialled'[i]] \in calm' => client'[dialled'[i]] = "poll"
    BY <1>t, <2>1, <2>2 DEF OneAwaits
  <2>4. \A p \in Forwarded : pending[p] # t
    BY <1>t, <2>1 DEF OnePlace, Nowhere
  <2>5. \A p \in calm' : pending'[p] # NoChannel => client'[pending'[p]] = "poll"
    BY <1>t, <2>1, <2>4 DEF OneAwaits
  <2>6. \A u \in Clients : (Awaits(u)' => Awaits(u))
    BY <2>1 DEF Awaits
  <2> QED BY <1>t, <2>1, <2>3, <2>5, <2>6 DEF OneAwaits, OwnTunnel
<1>6. CASE File
  <2> DEFINE h == Head(dialled)
  <2>1. /\ h \in Clients /\ h = dialled[1] /\ Len(dialled) >= 1
        /\ Len(dialled') = Len(dialled) - 1
        /\ \A i \in 1..Len(dialled') : dialled'[i] = dialled[i + 1]
    BY <1>6, <1>t DEF File
  <2>2. /\ pending' = [pending EXCEPT ![PortOf[h]] = h] /\ UNCHANGED <<client, bridge, calm>>
    BY <1>6 DEF File, Slot
  <2>3. PortOf[h] \in calm => client[h] = "poll"
    BY <1>t, <2>1 DEF OneAwaits
  <2>4. \A i \in 1..Len(dialled') :
          PortOf[dialled'[i]] \in calm' => client'[dialled'[i]] = "poll"
    BY <1>t, <2>1, <2>2 DEF OneAwaits
  <2>5. \A p \in calm' : pending'[p] # NoChannel => client'[pending'[p]] = "poll"
    BY <1>t, <2>2, <2>3 DEF OneAwaits
  <2> QED BY <1>t, <2>2, <2>4, <2>5 DEF OneAwaits, Awaits, OwnTunnel
<1>7. ASSUME NEW t \in Clients, Poll(t) PROVE OneAwaits'
  <2> DEFINE ch == pending[PortOf[t]]
  <2>1. /\ client[t] = "poll" /\ ch \in Clients
        /\ bridge' = [bridge EXCEPT ![t] = ch]
        /\ pending' = [pending EXCEPT ![PortOf[t]] = NoChannel]
        /\ client' = [client EXCEPT ![t] = "bridged"]
        /\ UNCHANGED <<dialled, calm>>
    BY <1>7, <1>t DEF Poll, Slot, Taken
  <2>2. PortOf[ch] = PortOf[t]
    BY <1>t, <2>1 DEF OnePlace
  <2>3. PortOf[t] \in calm => ch = t
    BY <1>t, <2>1, <2>2 DEF OneAwaits, Awaits
  <2>4. OwnTunnel'
    BY <1>t, <2>1, <2>3 DEF OneAwaits, OwnTunnel
  <2>5. \A i \in 1..Len(dialled) : dialled[i] # ch
    BY <1>t, <2>1 DEF OnePlace
  <2>6. \A i \in 1..Len(dialled') :
          PortOf[dialled'[i]] \in calm' => client'[dialled'[i]] = "poll"
    BY <1>t, <2>1, <2>3, <2>5 DEF OneAwaits
  <2>7. \A p \in calm : p # PortOf[t] /\ pending[p] # NoChannel => pending[p] # t
    BY <1>t DEF OnePlace
  <2>8. \A p \in calm' : pending'[p] # NoChannel => client'[pending'[p]] = "poll"
    BY <1>t, <2>1, <2>7 DEF OneAwaits
  <2>9. \A u \in Clients : (Awaits(u)' => Awaits(u))
    BY <1>t, <2>1 DEF Awaits
  <2> QED BY <2>1, <2>4, <2>6, <2>8, <2>9, <1>t DEF OneAwaits
<1>8. ASSUME NEW t \in Clients, Timeout(t) PROVE OneAwaits'
  <2>1. /\ client[t] = "poll" /\ pending[PortOf[t]] = NoChannel
        /\ client' = [client EXCEPT ![t] = "closed"]
        /\ UNCHANGED <<dialled, pending, bridge>> /\ calm' \subseteq calm
        /\ Queued(t) => PortOf[t] \notin calm'
    BY <1>8, <1>t DEF Timeout, Slot, Stirred
  <2>2. \A i \in 1..Len(dialled') :
          PortOf[dialled'[i]] \in calm' => client'[dialled'[i]] = "poll"
    BY <1>t, <2>1 DEF OneAwaits, Queued
  <2>3. \A p \in Forwarded : pending[p] # t
    BY <1>t, <2>1 DEF OnePlace
  <2>4. \A p \in calm' : pending'[p] # NoChannel => client'[pending'[p]] = "poll"
    BY <1>t, <2>1, <2>3 DEF OneAwaits
  <2>5. \A u \in Clients : (Awaits(u)' => Awaits(u))
    BY <1>t, <2>1 DEF Awaits
  <2> QED BY <1>t, <2>1, <2>2, <2>4, <2>5 DEF OneAwaits, OwnTunnel
<1>9. CASE Discard
  <2>1. /\ UNCHANGED <<client, pending, bridge>> /\ calm' \subseteq calm
        /\ \A i \in 1..Len(dialled') :
              i + 1 \in 1..Len(dialled) /\ dialled'[i] = dialled[i + 1]
    BY <1>9, <1>t DEF Discard, Stirred
  <2> QED BY <1>t, <2>1 DEF OneAwaits, Awaits, OwnTunnel
<1> QED BY <1>1, <1>2, <1>3, <1>4, <1>5, <1>6, <1>7, <1>8, <1>9 DEF TunnelNext

\* On a port whose clients came one at a time so far, each channel before its
\* client gave up, every client is bridged with the channel that the agent dialled
\* for it: only overlapping or late connections of the same port break this.
THEOREM CalmPortsServeOwn == TunnelSpec => []OwnTunnel
<1>1. CalmInv => OwnTunnel
  BY DEF CalmInv, OneAwaits
<1> QED BY InitCalm, NextCalm, <1>1, PTL DEF TunnelSpec
-----------------------------------------------------------------------------
\* Only a client that was bridged has a channel, so that none is overwritten.
Unbridged ==
    \A t \in Clients :
        client[t] \in {"new", "connect", "poll", "closed"} => bridge[t] = NoChannel

KeptInv == CalmInv /\ Unbridged /\ Conserved

LEMMA InitKept == TunnelInit => KeptInv
  BY InitCalm DEF TunnelInit, KeptInv, Unbridged, Conserved

LEMMA UnbridgedKept == CalmInv /\ Unbridged /\ [TunnelNext]_tunnelVars => Unbridged'
<1> SUFFICES ASSUME CalmInv, Unbridged, [TunnelNext]_tunnelVars PROVE Unbridged'
    OBVIOUS
<1>t. /\ client \in [Clients -> {"new", "connect", "poll", "bridged", "over", "closed"}]
      /\ bridge \in [Clients -> Clients \cup {NoChannel}]
  BY DEF CalmInv, TunnelInv, TunnelTypeOK
<1>1. ASSUME NEW t \in Clients,
             Accept(t) \/ Connect(t) \/ Refuse(t) \/ Abandon(t) \/ Timeout(t) \/ End(t)
      PROVE  Unbridged'
  <2>1. /\ bridge' = bridge
        /\ \/ client[t] \in {"new", "connect", "poll"}
           \/ client[t] = "bridged" /\ client'[t] = "over"
        /\ \A u \in Clients : u # t => client'[u] = client[u]
    BY <1>1, <1>t DEF Accept, Connect, Refuse, Abandon, Timeout, End
  <2> QED BY <2>1 DEF Unbridged
<1>2. ASSUME NEW t \in Clients, Poll(t) PROVE Unbridged'
  <2>1. /\ client'[t] = "bridged"
        /\ \A u \in Clients : u # t => client'[u] = client[u] /\ bridge'[u] = bridge[u]
    BY <1>2, <1>t DEF Poll
  <2> QED BY <2>1 DEF Unbridged
<1>3. CASE File \/ Discard \/ UNCHANGED tunnelVars
  BY <1>3 DEF File, Discard, tunnelVars, Unbridged
<1> QED BY <1>1, <1>2, <1>3 DEF TunnelNext

LEMMA NextKept == KeptInv /\ [TunnelNext]_tunnelVars => KeptInv'
<1> SUFFICES ASSUME KeptInv, [TunnelNext]_tunnelVars PROVE KeptInv'
    OBVIOUS
<1> USE TunnelAssumption
<1>t. /\ client \in [Clients -> {"new", "connect", "poll", "bridged", "over", "closed"}]
      /\ dialled \in Seq(Clients) /\ Len(dialled) \in Nat
      /\ \A i \in 1..Len(dialled) : dialled[i] \in Clients
      /\ pending \in [Forwarded -> Clients \cup {NoChannel}]
      /\ bridge \in [Clients -> Clients \cup {NoChannel}]
      /\ OneAwaits /\ OnePlace /\ Unbridged /\ Conserved
  BY DEF KeptInv, CalmInv, TunnelInv, TunnelTypeOK
<1> SUFFICES Conserved'
    BY NextCalm, UnbridgedKept DEF KeptInv
<1> SUFFICES ASSUME NEW u \in Clients, PortOf[u] \in calm',
                    client'[u] \in {"poll", "bridged", "over"}
             PROVE  \/ Queued(u)'
                    \/ pending'[PortOf[u]] = u
                    \/ \E v \in Clients : bridge'[v] = u
    BY DEF Conserved
<1> DEFINE Held == Queued(u) \/ pending[PortOf[u]] = u \/ \E v \in Clients : bridge[v] = u
<1>h. PortOf[u] \in calm /\ client[u] \in {"poll", "bridged", "over"} => Held
  BY <1>t DEF Conserved
<1> HIDE DEF Held
<1>1. CASE UNCHANGED tunnelVars
  BY <1>1, <1>h DEF tunnelVars, Held, Queued
<1>2. ASSUME NEW t \in Clients, Accept(t) \/ Refuse(t) \/ Timeout(t) \/ End(t)
      PROVE  Held'
  <2>1. /\ UNCHANGED <<dialled, pending, bridge>> /\ calm' \subseteq calm
        /\ client[u] \in {"poll", "bridged", "over"}
    BY <1>2, <1>t DEF Accept, Refuse, Timeout, End, Stirred
  <2> QED BY <2>1, <1>h DEF Held, Queued
<1>3. ASSUME NEW t \in Clients, Connect(t) \/ Abandon(t) PROVE Held'
  <2>1. /\ dialled' = Append(dialled, t) /\ UNCHANGED <<pending, bridge>>
        /\ calm' \subseteq calm /\ (u # t => client'[u] = client[u])
    BY <1>3, <1>t DEF Connect, Abandon, Stirred
  <2>2. /\ Len(dialled') = Len(dialled) + 1 /\ dialled'[Len(dialled) + 1] = t
        /\ \A i \in 1..Len(dialled) : dialled'[i] = dialled[i]
    BY <1>t, <2>1
  <2>3. u = t \/ Queued(u) => Queued(u)'
    BY <1>t, <2>2 DEF Queued
  <2> QED BY <1>h, <2>1, <2>3 DEF Held
<1>4. CASE File
  <2> DEFINE h == Head(dialled)
  <2>1. /\ h \in Clients /\ h = dialled[1] /\ 1 \in 1..Len(dialled)
        /\ Len(dialled') = Len(dialled) - 1
        /\ \A i \in 1..Len(dialled') : dialled'[i] = dialled[i + 1]
    BY <1>4, <1>t DEF File
  <2>2. /\ pending' = [pending EXCEPT ![PortOf[h]] = h]
        /\ UNCHANGED <<client, bridge, calm>>
    BY <1>4 DEF File, Slot
  <2>3. Held
    BY <2>2, <1>h
  <2>4. CASE Queued(u)
    <3>1. PICK i \in 1..Len(dialled) : dialled[i] = u
      BY <2>4 DEF Queued
    <3>2. CASE i = 1
      BY <1>t, <2>1, <2>2, <3>1, <3>2 DEF Held
    <3>3. CASE i # 1
      <4>1. i - 1 \in 1..Len(dialled') /\ dialled'[i - 1] = u
        BY <1>t, <2>1, <3>1, <3>3
      <4> QED BY <4>1 DEF Held, Queued
    <3> QED BY <3>2, <3>3
  <2>5. CASE pending[PortOf[u]] = u
    <3>1. client[u] = "poll" /\ u # h
      BY <1>t, <2>1, <2>2, <2>5 DEF OneAwaits, OnePlace
    <3>2. PortOf[h] # PortOf[u]
      BY <1>t, <2>1, <2>2, <3>1 DEF OneAwaits, Awaits
    <3> QED BY <1>t, <2>2, <2>5, <3>2 DEF Held
  <2>6. CASE \E v \in Clients : bridge[v] = u
    BY <2>2, <2>6 DEF Held
  <2> QED BY <2>3, <2>4, <2>5, <2>6 DEF Held
<1>5. ASSUME NEW t \in Clients, Poll(t) PROVE Held'
  <2>1. /\ client[t] = "poll" /\ bridge' = [bridge EXCEPT ![t] = pending[PortOf[t]]]
        /\ pending' = [pending EXCEPT ![PortOf[t]] = NoChannel]
        /\ client' = [client EXCEPT ![t] = "bridged"] /\ UNCHANGED <<dialled, calm>>
    BY <1>5 DEF Poll, Slot, Taken
  <2>2. Held /\ bridge[t] = NoChannel
    BY <1>t, <1>h, <2>1 DEF Unbridged
  <2>3. CASE pending[PortOf[u]] = u
    BY <1>t, <2>1, <2>3 DEF Held
  <2>4. CASE \E v \in Clients : bridge[v] = u
    BY <1>t, <2>1, <2>2, <2>4 DEF Held
  <2>5. CASE Queued(u)
    BY <2>1, <2>5 DEF Held, Queued
  <2> QED BY <2>2, <2>3, <2>4, <2>5 DEF Held
<1>6. CASE Discard
  <2>1. /\ Len(dialled) >= 1 /\ Len(dialled') = Len(dialled) - 1
        /\ \A i \in 1..Len(dialled') : dialled'[i] = dialled[i + 1]
        /\ UNCHANGED <<client, pending, bridge>>
        /\ calm' = calm \ {PortOf[dialled[1]]}
    BY <1>6, <1>t DEF Discard, Stirred
  <2>2. Held
    BY <2>1, <1>h
  <2>3. CASE Queued(u)
    <3>1. PICK i \in 1..Len(dialled) : dialled[i] = u
      BY <2>3 DEF Queued
    <3>2. i # 1
      BY <2>1, <3>1
    <3>3. i - 1 \in 1..Len(dialled') /\ dialled'[i - 1] = u
      BY <1>t, <2>1, <3>1, <3>2
    <3> QED BY <3>3 DEF Held, Queued
  <2>4. CASE ~Queued(u)
    BY <2>1, <2>2, <2>4 DEF Held
  <2> QED BY <2>3, <2>4
<1> QED BY <1>1, <1>2, <1>3, <1>4, <1>5, <1>6 DEF TunnelNext, Held

\* On such a port no channel is lost: what the agent dialled for a client waits in
\* the queue or under its port until the client is bridged with it, so that none
\* stays open for nobody (main.go:1081-1100, 1145-1147).
THEOREM CalmPortsLoseNone == TunnelSpec => []Conserved
<1>1. KeptInv => Conserved
  BY DEF KeptInv
<1> QED BY InitKept, NextKept, <1>1, PTL DEF TunnelSpec

\* The channels, the queue and the clients keep their types.
THEOREM TunnelTypes == TunnelSpec => []TunnelTypeOK
<1>1. TunnelInv => TunnelTypeOK
  BY DEF TunnelInv
<1> QED BY InitTunnel, NextTunnel, <1>1, PTL DEF TunnelSpec
=============================================================================
