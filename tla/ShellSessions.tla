---------------------------- MODULE ShellSessions ----------------------------
(***************************************************************************)
(* "aetheria shell": interactive sessions of one container                 *)
(* (cmd/aetheria-agent/shell.go, pty.go; cmd/aetheria/main.go).            *)
(*                                                                         *)
(* The agent keeps one session per container: a request closes the one it  *)
(* finds, starts a shell on a new PTY and lets a goroutine dial the host   *)
(* and copy bytes until the shell or the stream ends.  The daemon files    *)
(* the stream under the container's name until the CLI comes for it.       *)
(***************************************************************************)
CONSTANTS
    Sessions,  \* invocations of "aetheria shell" for the container
    NoSession

ASSUME ShellAssumption == NoSession \notin Sessions

VARIABLES
    rpc,     \* the session the agent is starting
    active,  \* activeSessions[name]
    shell,   \* each session's shell process
    closed,  \* sessions whose master.Close() was called
    copier,  \* the goroutine of connectShellStream
    stream,  \* the agent's vsock stream, as the daemon has it; "ended" is shut
             \* while it still waits to be accepted
    pending, \* pendingAgentConns[name]
    cli,     \* the CLI command
    partner,  \* the session whose stream the CLI was bridged with
    calm     \* history: sessions followed one another so far, and each stream was
             \* filed within the CLI's 200 ms

agentVars == <<rpc, active, shell, closed, copier>>
shellVars == <<rpc, active, shell, closed, copier, stream, pending, cli, partner, calm>>

ShellTypeOK ==
    /\ rpc \in Sessions \cup {NoSession} /\ active \in Sessions \cup {NoSession}
    /\ shell \in [Sessions -> {"none", "alive", "dead"}]
    /\ closed \in SUBSET Sessions
    /\ copier \in [Sessions -> {"none", "dial", "copy", "closing", "over"}]
    /\ stream \in [Sessions -> {"none", "queued", "ended", "filed", "bridged", "shut"}]
    /\ pending \in Sessions \cup {NoSession}
    /\ cli \in [Sessions -> {"idle", "asked", "ready", "bridged", "gone"}]
    /\ partner \in [Sessions -> Sessions \cup {NoSession}] /\ calm \in BOOLEAN

ShellInit ==
    /\ rpc = NoSession /\ active = NoSession
    /\ shell = [s \in Sessions |-> "none"]
    /\ closed = {}
    /\ copier = [s \in Sessions |-> "none"]
    /\ stream = [s \in Sessions |-> "none"]
    /\ pending = NoSession
    /\ cli = [s \in Sessions |-> "idle"]
    /\ partner = [s \in Sessions |-> NoSession] /\ calm = TRUE

-----------------------------------------------------------------------------
\* The session that a request for a new one closes.
NoneClosed == {}
Replaced == {active} \ {NoSession}

\* What pendingAgentConns holds after a CLI took the stream.
StillPending == pending
NothingPending == NoSession

\* A copy of the session still reads the PTY, and keeps it open: openPTY and
\* setWinSize call Fd(), which puts the descriptor in blocking mode.
Reading(s) == copier[s] \in {"copy", "closing"} /\ shell[s] = "alive"

\* One of the two copies has ended, or the shell has.
CopyOver(s) == shell[s] = "dead" \/ stream[s] = "shut" \/ (s \in closed /\ ~Reading(s))

Quiet == \A s \in Sessions : copier[s] \in {"none", "over"} /\ cli[s] \in {"idle", "gone"}

-----------------------------------------------------------------------------
\* handleShellRPC, first half: close the session on record.
Ask(s) ==
    /\ cli[s] = "idle" /\ rpc = NoSession /\ calm' = (calm /\ Quiet)
    /\ cli' = [cli EXCEPT ![s] = "asked"] /\ rpc' = s
    /\ closed' = closed \cup Replaced /\ active' = NoSession
    /\ UNCHANGED <<shell, copier, stream, pending, partner>>

StartFails(s) ==
    /\ rpc = s /\ rpc' = NoSession /\ cli' = [cli EXCEPT ![s] = "gone"]
    /\ UNCHANGED <<active, shell, closed, copier, stream, pending, partner, calm>>

\* Second half: start the shell, put it on record, answer.
Started(s) ==
    /\ rpc = s /\ rpc' = NoSession /\ active' = s
    /\ shell' = [shell EXCEPT ![s] = "alive"]
    /\ copier' = [copier EXCEPT ![s] = "dial"]
    /\ cli' = [cli EXCEPT ![s] = "ready"]
    /\ UNCHANGED <<closed, stream, pending, partner, calm>>

Dial(s) ==
    /\ copier[s] = "dial"
    /\ copier' = [copier EXCEPT ![s] = "copy"]
    /\ stream' = [stream EXCEPT ![s] = "queued"]
    /\ UNCHANGED <<rpc, active, shell, closed, pending, cli, partner, calm>>

\* The goroutine returns; shell and record stay.
DialFails(s) ==
    /\ copier[s] = "dial" /\ copier' = [copier EXCEPT ![s] = "over"]
    /\ UNCHANGED <<rpc, active, shell, closed, stream, pending, cli, partner, calm>>

\* The user's "exit", or the end of the container.
Exit(s) ==
    /\ shell[s] = "alive" /\ shell' = [shell EXCEPT ![s] = "dead"]
    /\ UNCHANGED <<rpc, active, closed, copier, stream, pending, cli, partner, calm>>

\* The last user of the PTY is gone: the shell gets a hangup.
Hangup(s) ==
    /\ s \in closed /\ shell[s] = "alive" /\ ~Reading(s)
    /\ shell' = [shell EXCEPT ![s] = "dead"]
    /\ UNCHANGED <<rpc, active, closed, copier, stream, pending, cli, partner, calm>>

\* The shell prints something: the read in progress returns, and the PTY closes.
Output(s) ==
    /\ s \in closed /\ Reading(s)
    /\ shell' = [shell EXCEPT ![s] = "dead"]
    /\ UNCHANGED <<rpc, active, closed, copier, stream, pending, cli, partner, calm>>

\* StreamTo: close the PTY and the stream.
CloseBoth(s) ==
    /\ copier[s] = "copy" /\ CopyOver(s)
    /\ copier' = [copier EXCEPT ![s] = "closing"]
    /\ closed' = closed \cup {s}
    /\ stream' = [stream EXCEPT ![s] = IF @ = "queued" THEN "ended" ELSE "shut"]
    /\ UNCHANGED <<rpc, active, shell, pending, cli, partner, calm>>

\* The other copy has ended too: delete the container's entry, whosever it is.
Finish(s) ==
    /\ copier[s] = "closing" /\ ~Reading(s)
    /\ copier' = [copier EXCEPT ![s] = "over"]
    /\ active' = NoSession
    /\ UNCHANGED <<rpc, shell, closed, stream, pending, cli, partner, calm>>

-----------------------------------------------------------------------------
\* bridgePTYStreams: file the agent's stream, ended or not; one filed before is
\* forgotten.
File(s) ==
    /\ stream[s] \in {"queued", "ended"} /\ pending' = s
    /\ stream' = [stream EXCEPT ![s] = IF @ = "queued" THEN "filed" ELSE "shut"]
    /\ UNCHANGED <<agentVars, cli, partner, calm>>

InTime(s) == copier[s] # "dial" /\ stream[s] \notin {"queued", "ended"}

\* The CLI connects 200 ms after the answer: it is bridged, or cut off if no
\* stream is filed.
Connect(s) ==
    /\ cli[s] = "ready" /\ calm' = (calm /\ InTime(s))
    /\ \/ /\ pending # NoSession /\ pending' = NothingPending
          /\ partner' = [partner EXCEPT ![s] = pending]
          /\ stream' = [stream EXCEPT ![pending] = IF @ = "filed" THEN "bridged" ELSE @]
          /\ cli' = [cli EXCEPT ![s] = "bridged"]
       \/ /\ pending = NoSession /\ cli' = [cli EXCEPT ![s] = "gone"]
          /\ UNCHANGED <<stream, pending, partner>>
    /\ UNCHANGED agentVars

\* The terminal is closed: the daemon closes the agent's stream too.
Leave(s) ==
    /\ cli[s] = "bridged" /\ cli' = [cli EXCEPT ![s] = "gone"]
    /\ stream' = [stream EXCEPT ![partner[s]] = "shut"]
    /\ UNCHANGED <<agentVars, pending, partner, calm>>

\* The agent's stream ended: the daemon closes the CLI's.
Cut(s) ==
    /\ cli[s] = "bridged" /\ stream[partner[s]] = "shut"
    /\ cli' = [cli EXCEPT ![s] = "gone"]
    /\ UNCHANGED <<agentVars, stream, pending, partner, calm>>

ShellNext ==
    \E s \in Sessions :
        \/ Ask(s) \/ StartFails(s) \/ Started(s) \/ Dial(s) \/ DialFails(s)
        \/ Exit(s) \/ Hangup(s) \/ Output(s) \/ CloseBoth(s) \/ Finish(s)
        \/ File(s) \/ Connect(s) \/ Leave(s) \/ Cut(s)

ShellSpec == ShellInit /\ [][ShellNext]_shellVars

\* Goroutines and hangups happen; users and shells do what they like.
ShellFairSpec ==
    /\ ShellSpec
    /\ \A s \in Sessions :
          /\ WF_shellVars(Started(s) \/ StartFails(s))
          /\ WF_shellVars(Dial(s) \/ DialFails(s))
          /\ WF_shellVars(File(s)) /\ WF_shellVars(CloseBoth(s))
          /\ WF_shellVars(Finish(s)) /\ WF_shellVars(Hangup(s))

-----------------------------------------------------------------------------
\* As long as sessions follow one another, a shell that nobody told to end is on
\* record, so that the next request finds it: "activeSessions tracks running PTY
\* sessions to prevent duplicates and leaks" (shell.go:25).
Tracked ==
    calm => \A s \in Sessions : shell[s] = "alive" /\ s \notin closed => active = s

\* No two terminals are ever bridged with the same shell (main.go:988-993).
OneTerminal ==
    \A s, t \in Sessions : partner[s] # NoSession /\ partner[s] = partner[t] => s = t

\* Where sessions follow one another and streams are in time, a terminal gets the
\* shell that was started for it, and none is turned away whose stream is filed.
OwnShell ==
    calm => \A s \in Sessions :
              /\ partner[s] \in {s, NoSession}
              /\ cli[s] = "gone" /\ partner[s] = NoSession => stream[s] # "filed"

\* A shell whose terminal is closed ends, and so does its goroutine.  The code says
\* that closing the PTY "kills the old shell" (shell.go:63) and that it closes "both
\* to unblock the other goroutine" (pty.go:170).
ShellEnds ==
    \A t \in Sessions :
        (\E s \in Sessions : cli[s] = "gone" /\ partner[s] = t)
            ~> shell[t] = "dead" /\ copier[t] = "over"
=============================================================================
