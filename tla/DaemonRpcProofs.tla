--------------------------- MODULE DaemonRpcProofs ---------------------------
(* Theorems about the relay and the daemon's life around it, for any clients and  *)
(* any number of reconnections.                                               *)
EXTENDS DaemonLife, TLAPS

Lines == Seq(Requests)
States == {"idle", "queued", "reading", "done"}
Links == {"none", "up", "down", "silent"}

LEMMA Constants ==
    /\ Clients \cap Conns = {} /\ Conns \subseteq Nat
    /\ Nobody \notin Requests /\ Error \notin Requests /\ Nobody # Error
    /\ 0 \notin Conns /\ Conns \subseteq Requests /\ Clients \subseteq Requests
  BY RpcAssumption DEF Requests, Conns

LEMMA InitType == Init => TypeOK
<1> SUFFICES ASSUME Init PROVE TypeOK
    OBVIOUS
<1>1. toAgent \in [Conns -> Seq(Requests)] /\ toDaemon \in [Conns -> Seq(Requests)]
  <2>1. <<>> \in Seq(Requests)
    OBVIOUS
  <2> QED BY <2>1 DEF Init
<1> QED BY <1>1, RpcAssumption DEF Init, TypeOK

\* One line more or less on one connection.
LEMMA LinesType ==
    ASSUME NEW f \in [Conns -> Lines], NEW k \in Conns
    PROVE  /\ \A r \in Requests : [f EXCEPT ![k] = Append(@, r)] \in [Conns -> Lines]
           /\ f[k] # <<>> => /\ Head(f[k]) \in Requests
                             /\ [f EXCEPT ![k] = Tail(@)] \in [Conns -> Lines]
           /\ [f EXCEPT ![k] = <<>>] \in [Conns -> Lines]
<1>1. f[k] \in Seq(Requests)
  BY DEF Lines
<1>2. \A r \in Requests : Append(f[k], r) \in Lines
  BY <1>1 DEF Lines
<1>3. f[k] # <<>> => Head(f[k]) \in Requests /\ Tail(f[k]) \in Lines
  BY <1>1 DEF Lines
<1>4. <<>> \in Lines
  BY DEF Lines
<1> QED BY <1>2, <1>3, <1>4

LEMMA AnswerType ==
    ASSUME TypeOK, NEW r \in Requests, NEW v \in Requests \cup {Error}, Answer(r, v)
    PROVE  /\ handler' \in [Requests -> States]
           /\ got' \in [Requests -> Requests \cup {Nobody, Error}]
           /\ mu' = Nobody
           /\ UNCHANGED <<agentConn, sentOn, link, toAgent, dialled, serving,
                          executing>>
<1>1. handler' \in [Requests -> States]
  BY DEF TypeOK, Answer, States
<1>2. got' \in [Requests -> Requests \cup {Nobody, Error}]
  BY DEF TypeOK, Answer
<1> QED BY <1>1, <1>2 DEF Answer, agentVars

LEMMA NextType ==
    ASSUME TypeOK, agentConn = 0 => \A r \in Requests : handler[r] # "queued",
           agentConn = 0 => \A r \in Requests : handler[r] # "reading",
           [Next]_vars
    PROVE  TypeOK'
<1> USE DEF daemonVars, agentVars
<1>t. /\ toAgent \in [Conns -> Lines] /\ toDaemon \in [Conns -> Lines]
      /\ agentConn \in 0..MaxConns /\ handler \in [Requests -> States]
      /\ serving \in 0..MaxConns /\ MaxConns \in Nat
      /\ link \in [Conns -> Links]
  BY RpcAssumption DEF TypeOK, Lines, States, Links
<1>1. CASE UNCHANGED vars
  BY <1>1 DEF vars, TypeOK
<1>2. ASSUME NEW c \in Clients, CliSend(c) PROVE TypeOK'
  BY <1>2 DEF CliSend, TypeOK
<1>3. ASSUME NEW r \in Requests, Write(r) PROVE TypeOK'
  <2>1. agentConn \in Conns
    BY <1>3, <1>t DEF Write, Conns
  <2>2. toAgent' \in [Conns -> Lines]
    BY <1>3, <1>t, <2>1, LinesType DEF Write
  <2> QED BY <1>3, <2>1, <2>2 DEF Write, TypeOK, Lines
<1>4. ASSUME NEW r \in Requests, WriteError(r) \/ ReadError(r) \/ ReadTimeout(r)
      PROVE  TypeOK'
  <2>1. Answer(r, Error) /\ UNCHANGED toDaemon
    BY <1>4 DEF WriteError, ReadError, ReadTimeout
  <2>2. timedOut' \subseteq Conns
    <3>1. timedOut \subseteq Conns /\ (handler[r] = "reading" => agentConn \in Conns)
      BY <1>t DEF TypeOK, Conns
    <3> QED BY <1>4, <3>1 DEF WriteError, ReadError, ReadTimeout
  <2> QED BY <2>1, <2>2, AnswerType DEF TypeOK, States
<1>5. ASSUME NEW r \in Requests, ReadReply(r) PROVE TypeOK'
  <2>1. agentConn \in Conns
    BY <1>5, <1>t DEF ReadReply, Conns
  <2>2. /\ Head(toDaemon[agentConn]) \in Requests
        /\ toDaemon' \in [Conns -> Lines]
    BY <1>5, <1>t, <2>1, LinesType DEF ReadReply
  <2>3. Answer(r, Head(toDaemon[agentConn])) /\ UNCHANGED timedOut
    BY <1>5 DEF ReadReply
  <2> QED BY <2>2, <2>3, AnswerType DEF TypeOK, States, Lines
<1>6. CASE Install
  <2>1. agentConn + 1 \in Conns
    BY <1>6, <1>t DEF Install, ConnWaiting, Conns, TypeOK
  <2>2. /\ toDaemon[agentConn + 1] \in Seq(Requests)
        /\ NewReader \o toDaemon[agentConn + 1] \in Lines
    BY <1>t, <2>1 DEF NewReader, Lines
  <2>3. toDaemon' \in [Conns -> Lines]
    BY <1>6, <1>t, <2>1, <2>2 DEF Install
  <2>4. agentConn' \in 0..MaxConns
    BY <1>6, <2>1 DEF Install, Conns
  <2>5. handler' \in [Requests -> States]
    BY <1>6, <1>t DEF Install, States
  <2> QED BY <1>6, <2>3, <2>4, <2>5 DEF Install, TypeOK, Lines, States
<1>7. CASE Dial
  BY <1>7, <1>t DEF Dial, TypeOK, Conns
<1>8. CASE Receive
  <2>1. serving \in Conns
    BY <1>8, <1>t DEF Receive, Conns
  <2>2. executing' \in Requests /\ toAgent' \in [Conns -> Lines]
    BY <1>8, <1>t, <2>1, LinesType DEF Receive
  <2> QED BY <1>8, <2>2 DEF Receive, TypeOK, Lines
<1>9. CASE Respond
  <2>1. toDaemon' \in [Conns -> Lines]
    <3>1. executing \in Requests
      BY <1>9 DEF Respond, TypeOK
    <3>2. CASE serving \in Conns
      BY <1>9, <1>t, <3>1, <3>2, LinesType DEF Respond
    <3>3. CASE serving \notin Conns
      <4>1. [toDaemon EXCEPT ![serving] = Append(@, executing)] = toDaemon
        BY <1>t, <3>3
      <4> QED BY <4>1, <1>9, <1>t DEF Respond
    <3> QED BY <3>2, <3>3
  <2> QED BY <1>9, <2>1 DEF Respond, TypeOK, Lines
<1>10. CASE Break \/ Leave \/ Crash
  <2>1. serving \in Conns
    BY <1>10, <1>t DEF Break, Leave, Crash, Conns
  <2>2. toDaemon' \in [Conns -> Lines] /\ toAgent' \in [Conns -> Lines]
    BY <1>10, <1>t, <2>1, LinesType DEF Break, Leave, Crash
  <2>3. link' \in [Conns -> Links]
    BY <1>10, <1>t, <2>1 DEF Break, Leave, Crash, Links
  <2> QED BY <1>10, <2>2, <2>3, <1>t DEF Break, Leave, Crash, TypeOK, Lines, Links
<1>11. CASE Halt
  <2>1. <<>> \in Lines
    BY DEF Lines
  <2>2. link' \in [Conns -> Links] /\ toAgent' \in [Conns -> Lines]
    BY <1>11, <1>t, <2>1 DEF Halt, Links
  <2> QED BY <1>11, <2>2, <1>t DEF Halt, TypeOK, Lines, Links
<1> QED BY <1>1, <1>2, <1>3, <1>4, <1>5, <1>6, <1>7, <1>8, <1>9, <1>10, <1>11
        DEF Next, Goroutine

-----------------------------------------------------------------------------
\* The goroutine that reads is the one that holds the mutex, and reads from the
\* connection that it wrote to.
Holder ==
    /\ \A r \in Requests : handler[r] = "reading" <=> mu = r
    /\ \A r \in Requests : handler[r] = "reading" => sentOn[r] = agentConn
    /\ agentConn = 0 => \A r \in Requests : handler[r] \in {"idle", "done"}

\* The agent works for the connection in use, or waits for a request on a newer
\* one, on which nothing has been written yet.
Ahead ==
    /\ agentConn <= dialled /\ serving \in {0, dialled}
    /\ executing # Nobody => serving # 0 /\ serving = agentConn
    /\ \A k \in Conns : k > agentConn => toAgent[k] = <<>> /\ toDaemon[k] = <<>>

\* On the connection in use nothing is under way but the request of the mutex's
\* holder: in one direction, or in the agent's hands, or in the other.  A deadline
\* that passes with the agent still at work ends this for the connection.
Alone ==
    agentConn # 0 /\ agentConn \notin timedOut =>
        /\ toDaemon[agentConn] = <<>> \/ (mu # Nobody /\ toDaemon[agentConn] = <<mu>>)
        /\ link[agentConn] = "up" =>
              \/ /\ toAgent[agentConn] = <<>> /\ executing = Nobody
                 /\ toDaemon[agentConn] = <<>>
              \/ /\ mu # Nobody
                 /\ \/ /\ toAgent[agentConn] = <<mu>> /\ executing = Nobody
                       /\ toDaemon[agentConn] = <<>>
                    \/ /\ toAgent[agentConn] = <<>> /\ executing = mu
                       /\ toDaemon[agentConn] = <<>>
                    \/ /\ toAgent[agentConn] = <<>> /\ executing = Nobody
                       /\ toDaemon[agentConn] = <<mu>>

\* Only a request that is done was answered, and no ping is sent twice.
Fresh ==
    /\ \A r \in Requests : handler[r] # "done" => got[r] = Nobody
    /\ \A k \in Conns : k > agentConn => handler[k] = "idle"

RpcInv == TypeOK /\ Holder /\ Ahead /\ Alone /\ ReplyMatches /\ Fresh

LEMMA One == \A r : Append(<<>>, r) = <<r>> /\ Head(<<r>>) = r /\ Tail(<<r>>) = <<>>
                   /\ <<r>> # <<>>
  OBVIOUS

LEMMA InitRpc == Init => RpcInv
<1> SUFFICES ASSUME Init PROVE RpcInv
    OBVIOUS
<1>1. TypeOK
  BY InitType
<1>2. Holder
  BY Constants DEF Init, Holder
<1>3. Ahead /\ Alone /\ ReplyMatches /\ Fresh
  BY Constants DEF Init, Ahead, Alone, ReplyMatches, Fresh
<1> QED BY <1>1, <1>2, <1>3 DEF RpcInv

LEMMA NextRpc == RpcInv /\ [Next]_vars => RpcInv'
<1> SUFFICES ASSUME RpcInv, [Next]_vars PROVE RpcInv'
    OBVIOUS
<1> USE DEF daemonVars, agentVars
<1>t. TypeOK'
  BY NextType DEF RpcInv, Holder
<1>0. /\ agentConn \in 0..MaxConns /\ MaxConns \in Nat /\ dialled \in 0..MaxConns
      /\ serving \in 0..MaxConns
      /\ handler \in [Requests -> States] /\ got \in [Requests -> Requests \cup {Nobody, Error}]
      /\ mu \in Requests \cup {Nobody} /\ link \in [Conns -> Links]
      /\ toAgent \in [Conns -> Lines] /\ toDaemon \in [Conns -> Lines]
      /\ executing \in Requests \cup {Nobody}
      /\ sentOn \in [Requests -> 0..MaxConns] /\ timedOut \subseteq Conns
      /\ Holder /\ Ahead /\ Alone /\ ReplyMatches /\ Fresh
  BY RpcAssumption DEF RpcInv, TypeOK, States, Links, Lines
<1> DEFINE Rest == Holder /\ Ahead /\ Alone /\ ReplyMatches /\ Fresh
<1> SUFFICES Rest'
    BY <1>t DEF RpcInv
<1>1. CASE UNCHANGED vars
  BY <1>0, <1>1 DEF vars, Holder, Ahead, Alone, ReplyMatches, Fresh
<1>2. ASSUME NEW c \in Clients, CliSend(c) PROVE Rest'
  <2>1. UNCHANGED <<mu, agentConn, got, sentOn, timedOut, link, toAgent, toDaemon,
                    dialled, serving, executing>>
    BY <1>2 DEF CliSend
  <2>2. Holder'
    BY <1>0, <1>2, Constants DEF CliSend, Holder, States
  <2>3. Fresh'
    BY <1>0, <1>2, Constants DEF CliSend, Fresh, States
  <2> QED BY <1>0, <2>1, <2>2, <2>3 DEF Ahead, Alone, ReplyMatches
<1>3. ASSUME NEW r \in Requests, Write(r) PROVE Rest'
  <2>1. agentConn \in Conns /\ mu = Nobody
    BY <1>0, <1>3 DEF Write, Free, Conns, Holder
  <2>2. Holder'
    BY <1>0, <1>3, <2>1, Constants DEF Write, Holder, States
  <2>3. \A k \in Conns : k > agentConn => toAgent'[k] = toAgent[k]
    BY <1>0, <1>3, <2>1 DEF Write, Conns
  <2>4. Ahead'
    BY <1>0, <1>3, <2>3 DEF Write, Ahead
  <2>5. agentConn \notin timedOut =>
          /\ toDaemon'[agentConn] = <<>>
          /\ link[agentConn] = "up" => executing = Nobody /\ toAgent[agentConn] = <<>>
    BY <1>0, <1>3, <2>1 DEF Write, Alone, Conns
  <2>6. agentConn \notin timedOut /\ link[agentConn] = "up" => toAgent'[agentConn] = <<r>>
    BY <1>0, <1>3, <2>1, <2>5, One DEF Write
  <2>7. r # Nobody
    BY Constants
  <2>8. mu' = r /\ UNCHANGED <<agentConn, link, executing, got, timedOut>>
    BY <1>3 DEF Write
  <2>9. Alone'
    BY <2>5, <2>6, <2>7, <2>8 DEF Alone
  <2>10. handler[r] = "queued" /\ got[r] \in {r, Error, Nobody}
    BY <1>0, <1>3 DEF Write, Fresh
  <2>11. \A q \in Requests : q # r => sentOn'[q] = sentOn[q]
    BY <1>0, <1>3 DEF Write
  <2>12. ReplyMatches'
    BY <1>0, <2>8, <2>10, <2>11 DEF ReplyMatches
  <2>13. Fresh'
    BY <1>0, <1>3 DEF Write, Fresh
  <2> QED BY <2>2, <2>4, <2>9, <2>12, <2>13
<1>4. ASSUME NEW r \in Requests, WriteError(r) \/ ReadError(r) \/ ReadTimeout(r) PROVE Rest'
  <2>1. /\ agentConn # 0 /\ mu \in {Nobody, r} /\ UNCHANGED toDaemon
        /\ timedOut' \in {timedOut, timedOut \cup {agentConn}}
    BY <1>0, <1>4 DEF WriteError, ReadError, ReadTimeout, Free, Holder
  <2>2. Answer(r, Error)
    BY <1>4 DEF WriteError, ReadError, ReadTimeout
  <2>3. Holder'
    BY <1>0, <2>1, <2>2, Constants DEF Answer, Holder, States
  <2>4. Ahead'
    BY <1>0, <2>1, <2>2 DEF Answer, Ahead
  <2>5. Alone'
    <3>1. CASE ReadTimeout(r)
      BY <3>1, <2>2 DEF ReadTimeout, Answer, Alone
    <3>2. CASE WriteError(r)
      BY <1>0, <3>2, <2>1, <2>2 DEF WriteError, Free, Answer, Alone
    <3>3. CASE ReadError(r)
      BY <1>0, <3>3, <2>1, <2>2 DEF ReadError, Answer, Alone
    <3> QED BY <1>4, <3>1, <3>2, <3>3
  <2>6. ReplyMatches'
    BY <1>0, <2>1, <2>2 DEF Answer, ReplyMatches
  <2>7. handler[r] # "idle"
    BY <1>4 DEF WriteError, ReadError, ReadTimeout
  <2>8. Fresh'
    BY <1>0, <2>2, <2>7, Constants DEF Answer, Fresh, States
  <2> QED BY <2>3, <2>4, <2>5, <2>6, <2>8
<1>7. ASSUME NEW r \in Requests, ReadReply(r) PROVE Rest'
  <2>1. agentConn \in Conns /\ mu = r /\ sentOn[r] = agentConn
    BY <1>0, <1>7 DEF ReadReply, Holder, Conns
  <2>2. agentConn \notin timedOut =>
          /\ toDaemon[agentConn] = <<r>>
          /\ link[agentConn] = "up" => executing = Nobody /\ toAgent[agentConn] = <<>>
    BY <1>0, <1>7, <2>1 DEF ReadReply, Alone, Conns
  <2>3. /\ Answer(r, Head(toDaemon[agentConn])) /\ UNCHANGED timedOut
        /\ agentConn \notin timedOut => Head(toDaemon[agentConn]) = r
    BY <1>7, <2>2, One DEF ReadReply
  <2>4. /\ agentConn \notin timedOut => toDaemon'[agentConn] = <<>>
        /\ \A k \in Conns : k # agentConn => toDaemon'[k] = toDaemon[k]
    BY <1>0, <1>7, <2>1, <2>2, One DEF ReadReply
  <2>5. Holder'
    BY <1>0, <2>1, <2>3, Constants DEF Answer, Holder, States, Conns
  <2>6. Ahead'
    BY <1>0, <2>1, <2>3, <2>4 DEF Answer, Ahead, Conns
  <2>7. Alone'
    BY <1>0, <2>2, <2>3, <2>4 DEF Answer, Alone
  <2>8. ReplyMatches'
    BY <1>0, <2>1, <2>3 DEF Answer, ReplyMatches
  <2>9. Fresh'
    BY <1>0, <1>7, <2>3, Constants DEF ReadReply, Answer, Fresh, States
  <2> QED BY <2>5, <2>6, <2>7, <2>8, <2>9
<1>8. CASE Install
  <2> DEFINE k == agentConn + 1
  <2>1. /\ k \in Conns /\ agentConn < dialled /\ mu = Nobody /\ k <= dialled
        /\ k > agentConn /\ k # 0
    BY <1>0, <1>8 DEF Install, ConnWaiting, Free, Conns
  <2>2. executing = Nobody
    BY <1>0, <2>1 DEF Ahead
  <2>3. toAgent[k] = <<>> /\ toDaemon[k] = <<>>
    BY <1>0, <2>1 DEF Ahead
  <2>4. toDaemon' = toDaemon
    <3>1. NewReader \o toDaemon[k] = toDaemon[k]
      BY <2>3 DEF NewReader
    <3> QED BY <1>0, <1>8, <3>1 DEF Install
  <2>5. /\ agentConn' = k
        /\ UNCHANGED <<mu, got, sentOn, timedOut, link, toAgent, dialled, serving, executing>>
    BY <1>8 DEF Install
  <2>6. Holder'
    BY <1>0, <1>8, <2>1, Constants DEF Install, Holder, States
  <2>7. Ahead'
    BY <1>0, <2>1, <2>2, <2>4, <2>5 DEF Ahead, Conns
  <2>8. Alone'
    BY <2>2, <2>3, <2>4, <2>5 DEF Alone
  <2>9. Fresh'
    <3>1. handler' = [handler EXCEPT ![k] = "queued"]
      BY <1>8 DEF Install
    <3>2. handler \in [Requests -> States] /\ k \in Requests /\ k \in Nat
          /\ Conns \subseteq Nat
      BY <1>0, <2>1, Constants DEF States
    <3> HIDE DEF k
    <3>3. ASSUME NEW r \in Requests, handler'[r] # "done" PROVE got'[r] = Nobody
      <4>1. handler[r] # "done" \/ r = k
        BY <3>1, <3>2, <3>3
      <4>2. k > agentConn /\ k \in Conns => handler[k] = "idle"
        BY <1>0 DEF Fresh
      <4> QED BY <1>0, <2>1, <2>5, <3>2, <3>3, <4>1, <4>2 DEF Fresh
    <3>4. ASSUME NEW j \in Conns, j > k PROVE handler'[j] = "idle"
      <4>1. j # k /\ j > agentConn /\ j \in Requests
        BY <1>0, <2>1, <3>2, <3>4, Constants
      <4> QED BY <1>0, <3>1, <3>2, <4>1 DEF Fresh
    <3> QED BY <2>5, <3>3, <3>4 DEF Fresh
  <2> QED BY <1>0, <2>5, <2>6, <2>7, <2>8, <2>9 DEF ReplyMatches
<1>9. CASE Dial
  <2>1. /\ executing = Nobody /\ dialled + 1 # agentConn /\ executing' = Nobody
        /\ UNCHANGED <<mu, agentConn, handler, got, sentOn, timedOut, toAgent, toDaemon>>
    BY <1>0, <1>9 DEF Dial, Ahead
  <2>2. agentConn # 0 => link'[agentConn] = link[agentConn]
    BY <1>0, <1>9, <2>1 DEF Dial, Conns
  <2>3. Ahead'
    BY <1>0, <1>9, <2>1 DEF Dial, Ahead
  <2> QED BY <1>0, <2>1, <2>2, <2>3 DEF Holder, Alone, ReplyMatches, Fresh
<1>10. CASE Receive
  <2>1. serving \in Conns /\ serving = agentConn /\ executing = Nobody
    BY <1>0, <1>10 DEF Receive, Ahead, Conns
  <2>2. UNCHANGED <<mu, agentConn, handler, got, sentOn, timedOut, link, toDaemon, dialled, serving>>
    BY <1>10 DEF Receive
  <2>3. /\ \A k \in Conns : k # agentConn => toAgent'[k] = toAgent[k]
        /\ toAgent'[agentConn] = Tail(toAgent[agentConn])
        /\ executing' = Head(toAgent[agentConn])
    BY <1>0, <1>10, <2>1 DEF Receive
  <2>4. Ahead'
    BY <1>0, <2>1, <2>2, <2>3 DEF Ahead, Conns
  <2>5. Alone'
    BY <1>0, <1>10, <2>1, <2>2, <2>3, One DEF Receive, Alone
  <2> QED BY <1>0, <2>2, <2>4, <2>5 DEF Holder, ReplyMatches, Fresh
<1>11. CASE Respond
  <2>1. serving \in Conns /\ serving = agentConn /\ executing # Nobody /\ executing' = Nobody
    BY <1>0, <1>11 DEF Respond, Ahead, Conns
  <2>2. UNCHANGED <<mu, agentConn, handler, got, sentOn, timedOut, link, toAgent, dialled, serving>>
    BY <1>11 DEF Respond
  <2>3. CASE link[agentConn] # "up"
    BY <1>0, <1>11, <2>1, <2>2, <2>3 DEF Respond, Holder, Ahead, Alone, ReplyMatches, Fresh
  <2>4. CASE agentConn \in timedOut
    <3>1. \A k \in Conns : k # agentConn => toDaemon'[k] = toDaemon[k]
      BY <1>0, <1>11, <2>1 DEF Respond
    <3>2. Ahead'
      BY <1>0, <2>1, <2>2, <3>1 DEF Ahead, Conns
    <3> QED BY <1>0, <2>2, <2>4, <3>2 DEF Holder, Alone, ReplyMatches, Fresh
  <2>5. CASE link[agentConn] = "up" /\ agentConn \notin timedOut
    <3>1. executing = mu /\ toDaemon[agentConn] = <<>> /\ toAgent[agentConn] = <<>>
      BY <1>0, <2>1, <2>5 DEF Alone, Conns
    <3>2. /\ toDaemon'[agentConn] = <<mu>>
          /\ \A k \in Conns : k # agentConn => toDaemon'[k] = toDaemon[k]
      BY <1>0, <1>11, <2>1, <2>5, <3>1, One DEF Respond
    <3>3. Ahead'
      BY <1>0, <2>1, <2>2, <3>2 DEF Ahead, Conns
    <3>4. Alone'
      BY <2>1, <2>2, <3>1, <3>2 DEF Alone
    <3> QED BY <1>0, <2>2, <3>3, <3>4 DEF Holder, ReplyMatches, Fresh
  <2> QED BY <2>3, <2>4, <2>5
<1>12. CASE Break \/ Leave \/ Crash
  <2>1. /\ serving \in Conns /\ UNCHANGED <<mu, agentConn, handler, got, sentOn, timedOut, dialled>>
        /\ serving' \in {0, serving}
        /\ executing' \in {Nobody, executing} /\ (serving' = 0 => executing' = Nobody)
    BY <1>0, <1>12 DEF Break, Leave, Crash, Conns
  <2>2. /\ \A k \in Conns : k # serving => link'[k] = link[k]
        /\ link'[serving] # "up"
    BY <1>0, <1>12, <2>1 DEF Break, Leave, Crash, Links
  <2>3. \A k \in Conns : /\ toAgent'[k] \in {toAgent[k], <<>>}
                         /\ k # serving => toAgent'[k] = toAgent[k]
    BY <1>0, <1>12, <2>1 DEF Break, Leave, Crash
  <2>4. \A k \in Conns : /\ toDaemon'[k] \in {toDaemon[k], <<>>}
                         /\ k # serving => toDaemon'[k] = toDaemon[k]
    BY <1>0, <1>12, <2>1 DEF Break, Leave, Crash
  <2>5. Ahead'
    BY <1>0, <2>1, <2>3, <2>4 DEF Ahead, Conns
  <2>6. Alone'
    <3> SUFFICES ASSUME agentConn # 0 PROVE Alone'
        BY <2>1 DEF Alone
    <3>1. agentConn \in Conns
      BY <1>0 DEF Conns
    <3>2. CASE agentConn = serving
      BY <1>0, <2>1, <2>2, <2>4, <3>1, <3>2 DEF Alone
    <3>3. CASE agentConn # serving
      <4>1. executing = Nobody /\ executing' = Nobody
        BY <1>0, <2>1, <3>3 DEF Ahead
      <4> QED BY <1>0, <2>1, <2>2, <2>3, <2>4, <3>1, <3>3, <4>1 DEF Alone
    <3> QED BY <3>2, <3>3
  <2> QED BY <1>0, <2>1, <2>5, <2>6 DEF Holder, ReplyMatches, Fresh
<1>13. CASE Halt
  <2>1. /\ serving' = 0 /\ executing' = Nobody
        /\ UNCHANGED <<mu, agentConn, handler, got, sentOn, timedOut, toDaemon, dialled>>
    BY <1>13 DEF Halt
  <2>2. \A k \in Conns : link'[k] # "up" /\ toAgent'[k] = <<>>
    BY <1>13 DEF Halt
  <2>3. Ahead'
    BY <1>0, <2>1, <2>2 DEF Ahead
  <2>4. Alone'
    <3>1. agentConn # 0 => agentConn \in Conns
      BY <1>0 DEF Conns
    <3>2. agentConn # 0 => link'[agentConn] # "up"
      BY <2>2, <3>1
    <3> QED BY <1>0, <2>1, <3>2 DEF Alone
  <2> QED BY <1>0, <2>1, <2>3, <2>4 DEF Holder, ReplyMatches, Fresh
<1> QED BY <1>1, <1>2, <1>3, <1>4, <1>7, <1>8, <1>9, <1>10, <1>11, <1>12, <1>13
        DEF Next, Goroutine

\* On a connection where no deadline has passed, a client is answered about its
\* own request, whatever breaks, hangs, crashes or reconnects: although the daemon
\* compares no IDs, the mutex keeps more than one request from being under way.
THEOREM AnswersMatch == Spec => []ReplyMatches
<1>1. RpcInv => ReplyMatches
  BY DEF RpcInv
<1> QED BY InitRpc, NextRpc, <1>1, PTL DEF Spec

-----------------------------------------------------------------------------
\* Before the agent's first connection no goroutine reaches the connection.
Started == agentConn = 0 => \A r \in Requests : handler[r] \in {"idle", "done"}

LEMMA NextStarted == TypeOK /\ Started /\ [Next]_vars => Started'
<1> SUFFICES ASSUME TypeOK, Started, [Next]_vars PROVE Started'
    OBVIOUS
<1> USE DEF daemonVars, agentVars, Started
<1>1. CASE UNCHANGED <<agentConn, handler>>
  BY <1>1
<1>2. ASSUME NEW r \in Requests, NEW v, Answer(r, v) PROVE Started'
  BY <1>2 DEF Answer, TypeOK
<1>3. ASSUME NEW r \in Requests, CliSend(r) \/ Write(r) PROVE Started'
  BY <1>3 DEF CliSend, Write
<1>4. CASE Install
  BY <1>4 DEF Install, TypeOK
<1> QED BY <1>1, <1>2, <1>3, <1>4, Constants DEF Next, Goroutine, vars, CliSend,
        Write, WriteError, ReadReply, ReadError, ReadTimeout, Dial, Receive,
        Respond, Break, Leave, Crash, Halt

\* Every variable stays in its range, whether deadlines pass or not; above all,
\* no goroutine writes to a connection that is not there.
THEOREM RpcTypes == Spec => []TypeOK
<1>1. Init => TypeOK /\ Started
  BY InitType DEF Init, Started
<1>2. (TypeOK /\ Started) /\ [Next]_vars => (TypeOK /\ Started)'
  BY NextType, NextStarted DEF Started
<1> QED BY <1>1, <1>2, PTL DEF Spec
-----------------------------------------------------------------------------
\* The lines of a queue belong to requests written to connection k.
From(on, lines, k) == \A i \in 1..Len(lines) : on[lines[i]] = k

\* Whatever is under way on a connection was asked on it, and a request that was
\* not written yet has left no trace.
Homes ==
    /\ \A k \in Conns : From(sentOn, toAgent[k], k) /\ From(sentOn, toDaemon[k], k)
    /\ executing # Nobody => sentOn[executing] = serving
    /\ \A r \in Requests : handler[r] \in {"idle", "queued"} => sentOn[r] = 0
    /\ \A r \in Requests : got[r] \in Requests => sentOn[r] # 0

LEMMA FromOps ==
    ASSUME NEW on, NEW k, NEW lines \in Lines, From(on, lines, k)
    PROVE  /\ \A r \in Requests : on[r] = k => From(on, Append(lines, r), k)
           /\ lines # <<>> => on[Head(lines)] = k /\ From(on, Tail(lines), k)
           /\ From(on, <<>>, k)
<1>1. lines \in Seq(Requests)
  BY DEF Lines
<1>2. ASSUME NEW r \in Requests, on[r] = k PROVE From(on, Append(lines, r), k)
  BY <1>1, <1>2 DEF From
<1>3. ASSUME lines # <<>> PROVE on[Head(lines)] = k /\ From(on, Tail(lines), k)
  <2>1. /\ Len(lines) \in Nat \ {0} /\ Head(lines) = lines[1]
        /\ Len(Tail(lines)) = Len(lines) - 1
        /\ \A i \in 1..Len(lines) - 1 : Tail(lines)[i] = lines[i + 1]
    BY <1>1, <1>3
  <2> QED BY <2>1 DEF From
<1> QED BY <1>2, <1>3 DEF From

LEMMA NextHomes ==
    RpcInv /\ Homes /\ AnswersStayOnConnection /\ [Next]_vars
        => (Homes /\ AnswersStayOnConnection)'
<1> SUFFICES ASSUME RpcInv, Homes, AnswersStayOnConnection, [Next]_vars
             PROVE  (Homes /\ AnswersStayOnConnection)'
    OBVIOUS
<1> USE DEF daemonVars, agentVars
<1>0. /\ agentConn \in 0..MaxConns /\ MaxConns \in Nat /\ dialled \in 0..MaxConns
      /\ serving \in 0..MaxConns
      /\ handler \in [Requests -> States] /\ got \in [Requests -> Requests \cup {Nobody, Error}]
      /\ toAgent \in [Conns -> Lines] /\ toDaemon \in [Conns -> Lines]
      /\ executing \in Requests \cup {Nobody}
      /\ sentOn \in [Requests -> 0..MaxConns]
      /\ Holder /\ Ahead /\ Fresh
  BY RpcAssumption DEF RpcInv, TypeOK, States, Lines
<1> DEFINE Goal == (Homes /\ AnswersStayOnConnection)'
<1>1. CASE UNCHANGED vars
  BY <1>1 DEF vars, Homes, AnswersStayOnConnection
<1>2. ASSUME NEW c \in Clients, CliSend(c) PROVE Goal
  BY <1>0, <1>2, Constants DEF CliSend, Homes, AnswersStayOnConnection, States
<1>3. ASSUME NEW r \in Requests, Write(r) PROVE Goal
  <2>1. /\ agentConn \in Conns /\ agentConn # 0 /\ sentOn[r] = 0 /\ got[r] = Nobody
        /\ sentOn' = [sentOn EXCEPT ![r] = agentConn]
        /\ handler' = [handler EXCEPT ![r] = "reading"]
        /\ UNCHANGED <<got, toDaemon, executing, serving>>
    BY <1>0, <1>3 DEF Write, Holder, Fresh, Homes, Conns
  <2>2. \A q \in Requests : sentOn[q] # 0 => q # r /\ sentOn'[q] = sentOn[q]
    BY <1>0, <2>1
  <2>3. ASSUME NEW k \in Conns, NEW lines \in Lines, From(sentOn, lines, k)
        PROVE  From(sentOn', lines, k)
    <3>1. lines \in Seq(Requests) /\ k # 0
      BY Constants DEF Lines
    <3> QED BY <2>2, <2>3, <3>1 DEF From
  <2>4. ASSUME NEW k \in Conns PROVE From(sentOn', toAgent'[k], k)
    <3>1. From(sentOn', toAgent[k], k)
      BY <1>0, <2>3 DEF Homes
    <3>2. CASE toAgent'[k] = toAgent[k]
      BY <3>1, <3>2
    <3>3. CASE k = agentConn /\ toAgent'[k] = Append(toAgent[k], r)
      <4>1. sentOn'[r] = k
        BY <1>0, <2>1, <3>3
      <4>2. toAgent[k] \in Lines
        BY <1>0
      <4> HIDE DEF From
      <4> QED BY <3>1, <3>3, <4>1, <4>2, FromOps
    <3> QED BY <1>0, <1>3, <3>2, <3>3 DEF Write
  <2>5. \A k \in Conns : From(sentOn', toDaemon'[k], k)
    BY <1>0, <2>1, <2>3 DEF Homes
  <2>6. executing' # Nobody => sentOn'[executing'] = serving'
    BY <1>0, <2>1, <2>2 DEF Homes, Ahead
  <2>7. \A q \in Requests : handler'[q] \in {"idle", "queued"} => sentOn'[q] = 0
    BY <1>0, <2>1 DEF Homes
  <2>8. \A q \in Requests : got'[q] \in Requests => sentOn'[q] # 0
    BY <1>0, <2>1, <2>2 DEF Homes
  <2>9. AnswersStayOnConnection'
    BY <1>0, <2>1, <2>2 DEF Homes, AnswersStayOnConnection
  <2> QED BY <2>4, <2>5, <2>6, <2>7, <2>8, <2>9 DEF Homes
<1>4. ASSUME NEW r \in Requests, WriteError(r) \/ ReadError(r) \/ ReadTimeout(r) PROVE Goal
  <2>1. Answer(r, Error) /\ UNCHANGED toDaemon
    BY <1>4 DEF WriteError, ReadError, ReadTimeout
  <2>2. got'[r] \notin Requests \/ got' = got
    BY <1>0, <2>1, Constants DEF Answer
  <2>3. \A q \in Requests : q # r => got'[q] = got[q] /\ handler'[q] = handler[q]
    BY <1>0, <2>1 DEF Answer
  <2>4. handler'[r] = "done"
    BY <1>0, <2>1 DEF Answer
  <2>5. UNCHANGED <<sentOn, toAgent, toDaemon, executing, serving>>
    BY <2>1 DEF Answer
  <2> QED BY <2>2, <2>3, <2>4, <2>5 DEF Homes, AnswersStayOnConnection
<1>5. ASSUME NEW r \in Requests, ReadReply(r) PROVE Goal
  <2> DEFINE lines == toDaemon[agentConn]
  <2>1. /\ agentConn \in Conns /\ sentOn[r] = agentConn /\ agentConn # 0
        /\ lines # <<>> /\ lines \in Lines
    BY <1>0, <1>5 DEF ReadReply, Holder, Conns
  <2>2. sentOn[Head(lines)] = agentConn /\ From(sentOn, Tail(lines), agentConn)
    <3>1. From(sentOn, lines, agentConn)
      BY <2>1 DEF Homes
    <3> HIDE DEF lines
    <3> QED BY <2>1, <3>1, FromOps
  <2>3. /\ Answer(r, Head(lines)) /\ toDaemon' = [toDaemon EXCEPT ![agentConn] = Tail(lines)]
    BY <1>5 DEF ReadReply
  <2> HIDE DEF lines
  <2>4. /\ \A q \in Requests : q # r => got'[q] = got[q] /\ handler'[q] = handler[q]
        /\ handler'[r] = "done" /\ got'[r] \in {Head(lines), got[r]}
        /\ UNCHANGED <<sentOn, toAgent, executing, serving>>
    BY <1>0, <2>3 DEF Answer
  <2>5. \A k \in Conns : From(sentOn, toDaemon'[k], k)
    BY <1>0, <2>1, <2>2, <2>3 DEF Homes
  <2>6. Homes'
    BY <2>1, <2>4, <2>5 DEF Homes
  <2>7. ASSUME NEW q \in Requests, got'[q] \in Requests PROVE sentOn[got'[q]] = sentOn[q]
    BY <2>1, <2>2, <2>4, <2>7 DEF AnswersStayOnConnection
  <2>8. AnswersStayOnConnection'
    BY <2>4, <2>7 DEF AnswersStayOnConnection
  <2> QED BY <2>6, <2>8
<1>6. CASE Install
  <2>1. agentConn + 1 \in Conns
    BY <1>0, <1>6 DEF Install, ConnWaiting, Conns
  <2>2. toDaemon' = toDaemon
    <3>1. toDaemon[agentConn + 1] = <<>>
      BY <1>0, <2>1 DEF Ahead
    <3> QED BY <1>0, <1>6, <3>1 DEF Install, NewReader
  <2>3. handler[agentConn + 1] = "idle" /\ agentConn + 1 \in Requests
    BY <1>0, <2>1, Constants DEF Fresh
  <2>4. /\ handler' = [handler EXCEPT ![agentConn + 1] = "queued"]
        /\ UNCHANGED <<got, sentOn, toAgent, executing, serving>>
    BY <1>6 DEF Install
  <2>5. \A r \in Requests : handler'[r] \in {"idle", "queued"} => sentOn[r] = 0
    BY <1>0, <2>3, <2>4 DEF Homes
  <2> QED BY <2>2, <2>4, <2>5 DEF Homes, AnswersStayOnConnection
<1>7. CASE Receive
  <2>1. serving \in Conns /\ toAgent[serving] \in Lines /\ toAgent[serving] # <<>>
    BY <1>0, <1>7 DEF Receive, Conns
  <2>2. sentOn[Head(toAgent[serving])] = serving /\ From(sentOn, Tail(toAgent[serving]), serving)
    BY <2>1, FromOps DEF Homes
  <2>3. \A k \in Conns : From(sentOn, toAgent'[k], k)
    BY <1>0, <1>7, <2>1, <2>2 DEF Receive, Homes
  <2> QED BY <1>7, <2>2, <2>3 DEF Receive, Homes, AnswersStayOnConnection
<1>8. CASE Respond
  <2>1. executing \in Requests /\ serving \in Conns /\ sentOn[executing] = serving
    BY <1>0, <1>8 DEF Respond, Ahead, Homes, Conns
  <2>2. From(sentOn, Append(toDaemon[serving], executing), serving)
    BY <1>0, <2>1, FromOps DEF Homes
  <2>3. \A k \in Conns : From(sentOn, toDaemon'[k], k)
    BY <1>0, <1>8, <2>1, <2>2 DEF Respond, Homes
  <2> QED BY <1>8, <2>3 DEF Respond, Homes, AnswersStayOnConnection
<1>9. CASE Dial \/ Break \/ Leave \/ Crash
  <2>1. /\ executing' = Nobody \/ (executing' = executing /\ serving' = serving)
        /\ UNCHANGED <<got, sentOn, handler>>
    BY <1>0, <1>9 DEF Dial, Break, Leave, Crash, Ahead
  <2>2. \A k \in Conns : /\ toAgent'[k] \in {toAgent[k], <<>>}
                         /\ toDaemon'[k] \in {toDaemon[k], <<>>}
    BY <1>0, <1>9 DEF Dial, Break, Leave, Crash
  <2>3. \A k \in Conns : From(sentOn, <<>>, k)
    BY DEF From
  <2> QED BY <2>1, <2>2, <2>3 DEF Homes, AnswersStayOnConnection
<1>10. CASE Halt
  <2>1. /\ executing' = Nobody /\ UNCHANGED <<got, sentOn, handler, toDaemon>>
        /\ \A k \in Conns : toAgent'[k] = <<>>
    BY <1>10 DEF Halt
  <2>2. \A k \in Conns : From(sentOn, <<>>, k)
    BY DEF From
  <2> QED BY <2>1, <2>2 DEF Homes, AnswersStayOnConnection
<1> QED BY <1>1, <1>2, <1>3, <1>4, <1>5, <1>6, <1>7, <1>8, <1>9, <1>10 DEF Next, Goroutine

\* Deadlines may pass and answers come late as often as they like: a request is
\* never given the answer to one that was written to another connection, so that
\* a reconnection ends the confusion.
THEOREM AnswersStay == Spec => []AnswersStayOnConnection
<1>1. Init => Homes /\ AnswersStayOnConnection
  BY Constants DEF Init, Homes, From, AnswersStayOnConnection
<1>2. RpcInv /\ Homes /\ AnswersStayOnConnection /\ [Next]_vars
        => (Homes /\ AnswersStayOnConnection)'
  BY NextHomes
<1> QED BY <1>1, <1>2, InitRpc, NextRpc, PTL DEF Spec
-----------------------------------------------------------------------------
\* All that happens in the daemon's life is a step of the relay, or none.
LEMMA LifeStep == [LifeNext]_allVars => [Next]_vars
  BY DEF LifeNext, allVars, Command, Take, Daemon, Accept, Agent, PowerOff, Interrupt,
         VMHalts, Serve, Expires, Ends, Next

\* The relay within the daemon's life, with commands that wait for the agent, VMs
\* that halt and daemons that end, is the relay.
THEOREM LifeIsRelay == LifeSpec => Spec
<1>1. LifeInit => Init
  BY DEF LifeInit
<1> QED BY <1>1, LifeStep, PTL DEF LifeSpec, Spec

\* A client is answered about its own request during all of the daemon's life,
\* on a connection where no deadline has passed.
THEOREM LifeAnswersMatch == LifeSpec => []ReplyMatches
  BY LifeIsRelay, AnswersMatch, PTL

\* No answer comes from another connection, during all of the daemon's life.
THEOREM LifeAnswersStay == LifeSpec => []AnswersStayOnConnection
  BY LifeIsRelay, AnswersStay, PTL

\* Before the daemon serves, no command has been taken.
NoneTaken == \A c \in Clients : handler[c] = "idle"
Waits == (phase = "waiting" => NoneTaken) /\ NoneCutOff

LEMMA NextWaits == TypeOK /\ Waits /\ [LifeNext]_allVars => Waits'
<1> SUFFICES ASSUME TypeOK, Waits, [LifeNext]_allVars PROVE Waits'
    OBVIOUS
<1> USE DEF lifeVars
<1>1. CASE UNCHANGED <<handler, lifeVars>>
  BY <1>1 DEF Waits, NoneTaken, NoneCutOff
<1>2. ASSUME NEW c \in Clients, Command(c) PROVE Waits'
  BY <1>2 DEF Command, vars, Waits, NoneTaken, NoneCutOff
<1>3. ASSUME NEW c \in Clients, Take(c) PROVE Waits'
  BY <1>3 DEF Take, TakesCommands, Waits, NoneCutOff
<1>4. ASSUME NEW r \in Requests, Daemon(r) PROVE Waits'
  <2>1. /\ phase # "ended" /\ UNCHANGED lifeVars
        /\ handler[r] \in {"queued", "reading"}
        /\ \A q \in Requests : q # r => handler'[q] = handler[q]
    BY <1>4 DEF Daemon, Lives, Goroutine, Write, WriteError, ReadReply, ReadError,
                ReadTimeout, Answer, TypeOK
  <2>2. NoneTaken => NoneTaken'
    BY <2>1, Constants DEF NoneTaken
  <2> QED BY <2>1, <2>2 DEF Waits, NoneCutOff
<1>5. CASE Accept
  <2>1. /\ phase # "ended" /\ UNCHANGED lifeVars
        /\ handler' = [handler EXCEPT ![agentConn + 1] = "queued"]
    BY <1>5 DEF Accept, Lives, Install
  <2>2. agentConn + 1 \notin Clients
    <3>1. agentConn + 1 \in Nat
      BY RpcAssumption DEF TypeOK
    <3>2. \A c \in Clients : c \notin Nat
      BY RpcAssumption
    <3> QED BY <3>1, <3>2
  <2>3. NoneTaken => NoneTaken'
    BY <2>1, <2>2, Constants DEF NoneTaken, TypeOK
  <2> QED BY <2>1, <2>3 DEF Waits, NoneCutOff
<1>6. CASE Agent
  BY <1>6 DEF Agent, Dial, Receive, Break, Leave, Crash, Respond, daemonVars, Waits,
              NoneTaken, NoneCutOff
<1>7. CASE PowerOff \/ Interrupt \/ VMHalts
  BY <1>7 DEF PowerOff, Interrupt, VMHalts, Lives, Halt, vars, daemonVars, Waits, NoneTaken,
              NoneCutOff
<1>8. CASE Serve \/ Expires \/ Ends
  BY <1>8 DEF Serve, Expires, HasLimit, Ends, vars, Waits, NoneTaken, NoneCutOff
<1> QED BY <1>1, <1>2, <1>3, <1>4, <1>5, <1>6, <1>7, <1>8 DEF LifeNext, allVars, vars

\* Whatever the agent, the VM, signals and deadlines do, a daemon that ends before
\* the VM has taken no command.
THEOREM NoCommandCutOff == LifeSpec => []NoneCutOff
<1>1. LifeInit => Waits
  BY Constants DEF LifeInit, Init, Waits, NoneTaken, NoneCutOff
<1>2. Waits => NoneCutOff
  BY DEF Waits
<1> QED BY <1>1, <1>2, NextWaits, LifeIsRelay, RpcTypes, PTL DEF LifeSpec

\* Every variable of the daemon's life stays in its range.
THEOREM LifeTypes == LifeSpec => []LifeTypeOK
<1> DEFINE T == /\ phase \in {"waiting", "serving", "ended"}
                /\ vm \in {"up", "stopping", "off"}
                /\ sock \in BOOLEAN /\ sent \subseteq Clients
<1>1. LifeInit => T
  BY DEF LifeInit
<1>2. T /\ [LifeNext]_allVars => T'
  BY DEF LifeNext, allVars, lifeVars, Command, Take, Daemon, Accept, Agent, PowerOff,
         Interrupt, VMHalts, Serve, Expires, Ends
<1>3. TypeOK /\ T => LifeTypeOK
  BY DEF LifeTypeOK
<1> HIDE DEF T
<1> QED BY <1>1, <1>2, <1>3, LifeIsRelay, RpcTypes, PTL DEF LifeSpec
=============================================================================
