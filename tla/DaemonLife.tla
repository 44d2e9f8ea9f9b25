------------------------------ MODULE DaemonLife ------------------------------
(***************************************************************************)
(* The life of the host's daemon (cmdRun in cmd/aetheria/main.go) around   *)
(* the requests of DaemonRpc: it starts the VM, waits a minute for the     *)
(* agent, takes commands, and ends when crosvm does.  A command that is    *)
(* given before the agent has come waits in the socket's queue.            *)
(***************************************************************************)
EXTENDS DaemonRpc

CONSTANT Stoppers  \* the commands that cmdStop sends: exec of "poweroff"

ASSUME LifeAssumption == Stoppers \subseteq Clients

VARIABLES
    phase, \* "waiting" for the agent, "serving" commands, "ended"
    vm,    \* "up", "stopping" once poweroff or SIGTERM has reached it, "off"
    sock,  \* the path of daemonSock is there
    sent   \* the commands that sendToDaemon has written to the socket

lifeVars == <<phase, vm, sock, sent>>
allVars == <<vars, lifeVars>>

LifeTypeOK ==
    /\ TypeOK
    /\ phase \in {"waiting", "serving", "ended"} /\ vm \in {"up", "stopping", "off"}
    /\ sock \in BOOLEAN /\ sent \subseteq Clients

\* The daemon listens and has started crosvm.
LifeInit ==
    /\ Init
    /\ phase = "waiting" /\ vm = "up" /\ sock = TRUE /\ sent = {}

-----------------------------------------------------------------------------
\* Commands are accepted after the wait for the agent.  (mutant: at once)
AtOnce == phase # "ended"
TakesCommands == phase = "serving"

\* The wait for the agent has a limit.
NoLimit == FALSE
HasLimit == phase = "waiting"

Lives == phase # "ended"

\* sendToDaemon dials, which is refused without the path or a listener, and writes.
Command(c) ==
    /\ sock /\ Lives /\ c \notin sent
    /\ sent' = sent \cup {c}
    /\ UNCHANGED <<vars, phase, vm, sock>>

\* The accept loop and handleCLIConn take a command from the queue, also one
\* whose client has given up.
Take(c) ==
    /\ c \in sent /\ TakesCommands /\ CliSend(c)
    /\ UNCHANGED lifeVars

Daemon(r) == Lives /\ Goroutine(r) /\ UNCHANGED lifeVars
Accept == Lives /\ Install /\ UNCHANGED lifeVars

\* The agent acts; poweroff does not return before the VM is told.
Agent ==
    /\ Lives /\ vm # "off"
    /\ \/ Dial \/ Receive \/ Break \/ Leave \/ Crash
       \/ Respond /\ (executing \in Stoppers => vm = "stopping")
    /\ UNCHANGED lifeVars

PowerOff ==
    /\ Lives /\ vm = "up" /\ executing \in Stoppers
    /\ vm' = "stopping"
    /\ UNCHANGED <<vars, phase, sock, sent>>

\* Ctrl-C or SIGTERM, of which only the first is read from sigCh: it is passed on
\* to crosvm, and the socket's path removed.
Interrupt ==
    /\ Lives /\ sock
    /\ vm' = IF vm = "up" THEN "stopping" ELSE vm
    /\ sock' = FALSE
    /\ UNCHANGED <<vars, phase, sent>>

\* crosvm exits: it was told to, or fails.
VMHalts ==
    /\ Lives /\ vm # "off" /\ vm' = "off" /\ Halt
    /\ UNCHANGED <<phase, sock, sent>>

\* The poll finds the agent connected.
Serve ==
    /\ phase = "waiting" /\ agentConn # 0
    /\ phase' = "serving"
    /\ UNCHANGED <<vars, vm, sock, sent>>

\* The minute is over; sudo is killed, which cannot pass that on to crosvm, and
\* os.Exit runs no deferred call.  The agent may have come since the last poll.
Expires ==
    /\ HasLimit
    /\ phase' = "ended"
    /\ UNCHANGED <<vars, vm, sock, sent>>

\* cmd.Wait returns; the deferred calls remove the socket.
Ends ==
    /\ phase = "serving" /\ vm = "off"
    /\ phase' = "ended" /\ sock' = FALSE
    /\ UNCHANGED <<vars, vm, sent>>

LifeNext ==
    \/ \E c \in Clients : Command(c) \/ Take(c)
    \/ \E r \in Requests : Daemon(r)
    \/ Accept \/ Agent \/ PowerOff \/ Interrupt \/ VMHalts
    \/ Serve \/ Expires \/ Ends

LifeSpec == LifeInit /\ [][LifeNext]_allVars

\* The daemon's goroutines run and its deadlines pass; a VM that was told to stop
\* stops; the agent may hang in a request forever.  Every request locks the mutex
\* at most once, so that weak fairness is enough for it.
LifeFairSpec ==
    /\ LifeSpec
    /\ \A c \in Clients : WF_allVars(Take(c))
    /\ \A r \in Requests : WF_allVars(Daemon(r))
    /\ WF_allVars(Accept) /\ WF_allVars(Serve) /\ WF_allVars(Expires) /\ WF_allVars(Ends)
    /\ WF_allVars(vm = "stopping" /\ VMHalts)

-----------------------------------------------------------------------------
\* Every command that reached the socket, before or after the agent's first
\* connection, and every ping comes to an end, although the agent may never come,
\* or hang or vanish without a word with the mutex held (main.go:259, 280, 522).
EveryRequestEnds ==
    \A r \in Requests :
        handler[r] = "queued" \/ r \in sent
            ~> handler[r] = "done" \/ phase = "ended"

\* A connection the agent keeps is the one the daemon uses in the end, although
\* installing it waits for the request under way on its predecessor.
Reconnects == \A k \in Conns : serving = k ~> agentConn = k \/ serving # k \/ phase = "ended"

\* A VM that was told to stop, by poweroff or by a signal, takes the daemon with
\* it, also before the agent has come (main.go:467, 521, 547).
StopEndsDaemon == vm = "stopping" ~> phase = "ended"

\* A daemon that ends before the VM has taken no command: the minute's wait may
\* leave a VM behind, but none that has worked for a client (main.go:516-540).
NoneCutOff == phase = "ended" /\ vm # "off" => \A c \in Clients : handler[c] = "idle"
=============================================================================
