------------------------------ MODULE DaemonRpc ------------------------------
(***************************************************************************)
(* Requests between the host's daemon and the agent in the VM              *)
(* (cmd/aetheria/main.go and cmd/aetheria-agent/main.go).                  *)
(*                                                                         *)
(* Each command of the CLI is a goroutine of the daemon that takes the     *)
(* mutex, writes one request to the agent's connection and reads one line  *)
(* as its answer.  The agent serves one connection, one request at a time, *)
(* and dials again when it loses it; the daemon's accept loop then         *)
(* replaces the connection and verifies it with a ping.                    *)
(***************************************************************************)
EXTENDS Naturals, Sequences

CONSTANTS
    Clients,      \* requests of CLI commands, one connection to the daemon each
    Nobody, Error,
    MaxConns      \* bound on the connections the agent dials

ASSUME RpcAssumption ==
    /\ Clients \cap Nat = {}
    /\ Nobody \notin Clients \cup Nat /\ Error \notin Clients \cup Nat
    /\ Nobody # Error
    /\ MaxConns \in Nat \ {0}

Conns == 1..MaxConns
\* A connection also names the ping that verifies it.
Requests == Clients \cup Conns

VARIABLES
    mu,        \* the request whose goroutine holds d.mu
    agentConn, \* d.agentConn, 0 before the first
    handler,   \* what the goroutine of each request is doing
    got,       \* what the goroutine was answered: the request the line answers
    link,      \* each connection as the daemon's end of it knows
    toAgent, toDaemon, \* lines under way on each connection
    sentOn,    \* history: the connection each request was written to
    timedOut,  \* history: connections on which a read deadline has passed
    dialled,   \* connections dialled so far
    serving,   \* the connection the agent serves, 0 between two
    executing  \* the request the agent is handling

daemonVars == <<mu, agentConn, handler, got, sentOn, timedOut>>
agentVars == <<dialled, serving, executing>>
vars == <<mu, agentConn, handler, got, link, toAgent, toDaemon, sentOn,
          timedOut, dialled, serving, executing>>

TypeOK ==
    /\ mu \in Requests \cup {Nobody}
    /\ agentConn \in 0..MaxConns
    /\ handler \in [Requests -> {"idle", "queued", "reading", "done"}]
    /\ got \in [Requests -> Requests \cup {Nobody, Error}]
    /\ link \in [Conns -> {"none", "up", "down", "silent"}]
    /\ toAgent \in [Conns -> Seq(Requests)] /\ toDaemon \in [Conns -> Seq(Requests)]
    /\ sentOn \in [Requests -> 0..MaxConns] /\ timedOut \subseteq Conns
    /\ dialled \in 0..MaxConns /\ serving \in 0..MaxConns
    /\ executing \in Requests \cup {Nobody}

Init ==
    /\ mu = Nobody /\ agentConn = 0
    /\ handler = [r \in Requests |-> "idle"]
    /\ got = [r \in Requests |-> Nobody]
    /\ link = [k \in Conns |-> "none"]
    /\ toAgent = [k \in Conns |-> <<>>] /\ toDaemon = [k \in Conns |-> <<>>]
    /\ sentOn = [r \in Requests |-> 0] /\ timedOut = {}
    /\ dialled = 0 /\ serving = 0 /\ executing = Nobody

-----------------------------------------------------------------------------
\* sendToAgent holds the mutex from before the write until after the read.
NoLock == TRUE
Free == mu = Nobody

\* SetReadDeadline was called: the wait for an answer ends after ten minutes.
NoDeadline == FALSE
HasDeadline == TRUE

\* What a connection's new bufio.Reader holds before its first read.
OldReader == IF agentConn = 0 THEN <<>> ELSE toDaemon[agentConn]
NewReader == <<>>

\* A connection waits in the listener's queue.
ConnWaiting == agentConn < dialled

\* The accept loop goes on after its ping was answered or failed.
PingOver == \A k \in Conns : handler[k] \in {"idle", "done"}

-----------------------------------------------------------------------------
\* handleCLIConn read a request; the daemon takes no clients before the agent's
\* first connection.
CliSend(c) ==
    /\ handler[c] = "idle" /\ agentConn # 0
    /\ handler' = [handler EXCEPT ![c] = "queued"]
    /\ UNCHANGED <<mu, agentConn, got, sentOn, timedOut, link, toAgent, toDaemon, agentVars>>

\* sendToAgent returns and the goroutine answers its client, who may have given up
\* after thirty seconds without the daemon's learning of it.
Answer(r, v) ==
    /\ handler' = [handler EXCEPT ![r] = "done"]
    /\ got' = [got EXCEPT ![r] = v]
    /\ mu' = Nobody
    /\ UNCHANGED <<agentConn, sentOn, link, toAgent, agentVars>>

\* Lock and write; bytes written to a dead peer vanish.
Write(r) ==
    /\ handler[r] = "queued" /\ Free
    /\ mu' = r /\ handler' = [handler EXCEPT ![r] = "reading"]
    /\ sentOn' = [sentOn EXCEPT ![r] = agentConn]
    /\ toAgent' = IF link[agentConn] = "up"
                  THEN [toAgent EXCEPT ![agentConn] = Append(@, r)] ELSE toAgent
    /\ UNCHANGED <<agentConn, got, timedOut, link, toDaemon, agentVars>>

WriteError(r) ==
    /\ handler[r] = "queued" /\ Free /\ link[agentConn] = "down"
    /\ Answer(r, Error) /\ UNCHANGED <<toDaemon, timedOut>>

\* Any line is taken for the answer: its ID is not compared with the request's.
ReadReply(r) ==
    /\ handler[r] = "reading" /\ toDaemon[agentConn] # <<>>
    /\ Answer(r, Head(toDaemon[agentConn]))
    /\ toDaemon' = [toDaemon EXCEPT ![agentConn] = Tail(@)]
    /\ UNCHANGED timedOut

ReadError(r) ==
    /\ handler[r] = "reading" /\ toDaemon[agentConn] = <<>> /\ link[agentConn] = "down"
    /\ Answer(r, Error) /\ UNCHANGED <<toDaemon, timedOut>>

\* The read deadline passes; the connection is kept.
ReadTimeout(r) ==
    /\ handler[r] = "reading" /\ toDaemon[agentConn] = <<>> /\ HasDeadline
    /\ Answer(r, Error) /\ timedOut' = timedOut \cup {agentConn}
    /\ UNCHANGED toDaemon

\* The accept loop replaces the connection, under the mutex, and goes on to the
\* ping.
Install ==
    LET k == agentConn + 1
    IN  /\ ConnWaiting /\ PingOver /\ Free
        /\ agentConn' = k
        /\ toDaemon' = [toDaemon EXCEPT ![k] = NewReader \o @]
        /\ handler' = [handler EXCEPT ![k] = "queued"]
        /\ UNCHANGED <<mu, got, sentOn, timedOut, link, toAgent, agentVars>>

-----------------------------------------------------------------------------
\* The agent has no connection and dials.
Dial ==
    /\ serving = 0 /\ dialled < MaxConns
    /\ dialled' = dialled + 1 /\ serving' = dialled + 1
    /\ link' = [link EXCEPT ![dialled + 1] = "up"]
    /\ UNCHANGED <<daemonVars, toAgent, toDaemon, executing>>

Receive ==
    /\ serving # 0 /\ executing = Nobody /\ toAgent[serving] # <<>>
    /\ executing' = Head(toAgent[serving])
    /\ toAgent' = [toAgent EXCEPT ![serving] = Tail(@)]
    /\ UNCHANGED <<daemonVars, link, toDaemon, dialled, serving>>

\* The handler returns; an error of the write is only logged.
Respond ==
    /\ executing # Nobody /\ executing' = Nobody
    /\ toDaemon' = IF link[serving] = "up"
                   THEN [toDaemon EXCEPT ![serving] = Append(@, executing)] ELSE toDaemon
    /\ UNCHANGED <<daemonVars, link, toAgent, dialled, serving>>

\* The connection breaks and both ends are told; answers under way may be lost.
Break ==
    /\ serving # 0 /\ link[serving] = "up"
    /\ link' = [link EXCEPT ![serving] = "down"]
    /\ \/ UNCHANGED toDaemon
       \/ toDaemon' = [toDaemon EXCEPT ![serving] = <<>>]
    /\ UNCHANGED <<daemonVars, toAgent, agentVars>>

\* handleConnection returns: its scanner found the end of the stream.
Leave ==
    /\ serving # 0 /\ link[serving] = "down" /\ executing = Nobody
    /\ serving' = 0 /\ toAgent' = [toAgent EXCEPT ![serving] = <<>>]
    /\ UNCHANGED <<daemonVars, link, toDaemon, dialled, executing>>

\* The agent's process ends and is started again.  Without the shutdown that
\* vsockConn.Close sends, the host is not told.
Crash ==
    /\ serving # 0 /\ serving' = 0 /\ executing' = Nobody
    /\ link' = [link EXCEPT ![serving] = IF @ = "up" THEN "silent" ELSE @]
    /\ toAgent' = [toAgent EXCEPT ![serving] = <<>>]
    /\ UNCHANGED <<daemonVars, toDaemon, dialled>>

\* The VM goes off, and crosvm with all the connections.
Halt ==
    /\ serving' = 0 /\ executing' = Nobody
    /\ link' = [k \in Conns |-> IF link[k] = "none" THEN "none" ELSE "down"]
    /\ toAgent' = [k \in Conns |-> <<>>]
    /\ UNCHANGED <<daemonVars, toDaemon, dialled>>

Goroutine(r) ==
    Write(r) \/ WriteError(r) \/ ReadReply(r) \/ ReadError(r) \/ ReadTimeout(r)

Next ==
    \/ \E c \in Clients : CliSend(c)
    \/ \E r \in Requests : Goroutine(r)
    \/ Install
    \/ Dial \/ Receive \/ Respond \/ Break \/ Leave \/ Crash \/ Halt

Spec == Init /\ [][Next]_vars

-----------------------------------------------------------------------------
\* A client that is answered is answered about its own request, unless a read
\* deadline has passed on the same connection before: the mutex makes up for
\* the IDs that are not compared (main.go:245-291).
ReplyMatches ==
    \A r \in Requests : sentOn[r] \notin timedOut => got[r] \in {r, Error, Nobody}

\* Even where deadlines passed and answers come late, a reconnection ends the
\* confusion: an answer never comes from another connection than the one the
\* request was written to (main.go:494-500).
AnswersStayOnConnection ==
    \A r \in Requests : got[r] \in Requests => sentOn[got[r]] = sentOn[r]
=============================================================================
