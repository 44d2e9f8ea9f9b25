------------------------- MODULE ShellSessionsProofs -------------------------
(* Theorems about ShellSessions, for any number of sessions. *)
EXTENDS ShellSessions, TLAPS

\* A stream that the daemon has accepted, and one that a terminal has taken.
Accepted == {"filed", "bridged", "shut"}
Used == {"bridged", "shut"}

\* How far a session has come at the agent bounds where its stream can be; what is
\* pending was taken by nobody, and what was taken was taken once.
StreamInv ==
    /\ \A s \in Sessions : cli[s] = "asked" <=> rpc = s
    /\ \A s \in Sessions : cli[s] \in {"idle", "asked"} => copier[s] = "none"
    /\ \A s \in Sessions : copier[s] \in {"none", "dial"} => stream[s] = "none"
    /\ \A s \in Sessions : copier[s] = "closing" => s \in closed
    /\ \A s \in Sessions : cli[s] = "bridged" => partner[s] # NoSession
    /\ pending # NoSession => stream[pending] \in Accepted
    /\ \A s \in Sessions :
          partner[s] # NoSession => stream[partner[s]] \in Used /\ partner[s] # pending
    /\ OneTerminal

Busy(s) == copier[s] \notin {"none", "over"} \/ cli[s] \notin {"idle", "gone"}

\* While calm, one session at most is between its request and its end; the record
\* is its, and so is the stream that is filed.
CalmInv ==
    calm => /\ \A s, t \in Sessions : Busy(s) /\ Busy(t) => s = t
            /\ \A s \in Sessions : Busy(s) => active \in {s, NoSession}
            /\ rpc # NoSession => active = NoSession
            /\ \A s \in Sessions : cli[s] \in {"bridged", "gone"} =>
                  copier[s] # "dial" /\ stream[s] \notin {"queued", "ended"}
            /\ pending # NoSession => cli[pending] = "ready"
            /\ \A s \in Sessions : stream[s] = "filed" => pending = s

ShellInv == ShellTypeOK /\ StreamInv /\ CalmInv /\ Tracked /\ OwnShell

-----------------------------------------------------------------------------
LEMMA InitShell == ShellInit => ShellInv
<1> SUFFICES ASSUME ShellInit PROVE ShellInv
    OBVIOUS
<1>1. ShellTypeOK
  BY DEF ShellInit, ShellTypeOK
<1>2. StreamInv
  BY ShellAssumption DEF ShellInit, StreamInv, OneTerminal
<1>3. CalmInv
  BY ShellAssumption DEF ShellInit, CalmInv, Busy
<1>4. Tracked /\ OwnShell
  BY DEF ShellInit, Tracked, OwnShell
<1> QED BY <1>1, <1>2, <1>3, <1>4 DEF ShellInv

\* The request for a shell, and its answer.
LEMMA AskInv ==
    ASSUME ShellInv, NEW s \in Sessions, Ask(s) PROVE ShellInv'
<1> USE ShellAssumption DEF ShellInv
<1>1. ShellTypeOK'
  BY DEF Ask, ShellTypeOK, Replaced
<1>2. StreamInv'
  BY DEF Ask, ShellTypeOK, StreamInv, OneTerminal, Replaced
<1>3. calm' => calm /\ \A t \in Sessions : ~Busy(t) /\ (Busy(t)' => t = s)
  BY DEF Ask, ShellTypeOK, Quiet, Busy
<1>4. CalmInv'
  BY <1>3 DEF Ask, ShellTypeOK, CalmInv, Busy, StreamInv
<1>5. Tracked'
  BY <1>3 DEF Ask, Tracked, Replaced
<1>6. OwnShell'
  BY <1>3 DEF Ask, ShellTypeOK, OwnShell
<1> QED BY <1>1, <1>2, <1>4, <1>5, <1>6

LEMMA AnswerInv ==
    ASSUME ShellInv, NEW s \in Sessions, StartFails(s) \/ Started(s) PROVE ShellInv'
<1> USE ShellAssumption DEF ShellInv
<1>0. /\ cli[s] = "asked" /\ copier[s] = "none" /\ stream[s] = "none" /\ Busy(s)
      /\ \A t \in Sessions : Busy(t)' => Busy(t)
  BY DEF StartFails, Started, ShellTypeOK, StreamInv, Busy
<1>1. ShellTypeOK'
  BY DEF StartFails, Started, ShellTypeOK
<1>2. StreamInv'
  BY <1>0 DEF StartFails, Started, ShellTypeOK, StreamInv, OneTerminal
<1>3. CalmInv'
  <2>1. /\ rpc = s /\ rpc' = NoSession /\ UNCHANGED <<stream, pending, calm>>
        /\ active' \in {active, s}
        /\ \A t \in Sessions : t # s => cli'[t] = cli[t] /\ copier'[t] = copier[t]
        /\ cli'[s] = "ready" \/ copier'[s] = "none"
    BY <1>0 DEF StartFails, Started, ShellTypeOK
  <2> SUFFICES ASSUME calm PROVE CalmInv'
      BY <2>1 DEF CalmInv
  <2>2. \A t \in Sessions : Busy(t) => t = s /\ active' \in {t, NoSession}
    BY <1>0, <2>1 DEF CalmInv
  <2>3. \A t \in Sessions : cli'[t] \in {"bridged", "gone"} =>
           copier'[t] # "dial" /\ stream'[t] \notin {"queued", "ended"}
    BY <1>0, <2>1 DEF CalmInv
  <2>4. pending # NoSession => cli'[pending] = "ready"
    BY <1>0, <2>1 DEF CalmInv, ShellTypeOK
  <2>5. \A t \in Sessions : stream'[t] = "filed" => pending' = t
    BY <2>1 DEF CalmInv
  <2> QED BY <1>0, <2>1, <2>2, <2>3, <2>4, <2>5 DEF CalmInv
<1>4. Tracked'
  <2>1. CASE StartFails(s)
    BY <2>1 DEF StartFails, Tracked
  <2>2. CASE Started(s)
    <3>1. calm => active = NoSession
      BY <2>2 DEF Started, CalmInv
    <3> QED BY <2>2, <3>1 DEF Started, ShellTypeOK, Tracked
  <2> QED BY <2>1, <2>2
<1>5. OwnShell'
  <2>1. /\ \A t \in Sessions : t # s => cli'[t] = cli[t]
        /\ UNCHANGED <<stream, partner, calm>>
    BY DEF StartFails, Started, ShellTypeOK
  <2> QED BY <1>0, <2>1 DEF OwnShell
<1> QED BY <1>1, <1>2, <1>3, <1>4, <1>5

\* The goroutine that copies.
LEMMA DialInv ==
    ASSUME ShellInv, NEW s \in Sessions, Dial(s) \/ DialFails(s) PROVE ShellInv'
<1> USE ShellAssumption DEF ShellInv
<1>0. /\ stream[s] = "none" /\ Busy(s)
      /\ \A t \in Sessions : Busy(t)' => Busy(t)
  BY DEF Dial, DialFails, ShellTypeOK, StreamInv, Busy
<1>1. ShellTypeOK'
  BY DEF Dial, DialFails, ShellTypeOK
<1>2. StreamInv'
  BY <1>0 DEF Dial, DialFails, ShellTypeOK, StreamInv, OneTerminal, Accepted, Used
<1>3. CalmInv'
  <2>1. /\ UNCHANGED <<rpc, active, pending, cli, calm>> /\ copier[s] = "dial"
        /\ copier'[s] # "dial" /\ stream'[s] \in {"none", "queued"}
        /\ \A t \in Sessions : t # s => copier'[t] = copier[t] /\ stream'[t] = stream[t]
    BY <1>0 DEF Dial, DialFails, ShellTypeOK
  <2> SUFFICES ASSUME calm PROVE CalmInv'
      BY <2>1 DEF CalmInv
  <2>2. cli[s] \notin {"bridged", "gone"}
    BY <2>1 DEF CalmInv
  <2>3. \A t \in Sessions : cli[t] \in {"bridged", "gone"} =>
           copier'[t] # "dial" /\ stream'[t] \notin {"queued", "ended"}
    BY <2>1, <2>2 DEF CalmInv
  <2>4. \A t \in Sessions : stream'[t] = "filed" => pending = t
    BY <2>1 DEF CalmInv
  <2> QED BY <1>0, <2>1, <2>3, <2>4 DEF CalmInv
<1>4. Tracked' /\ OwnShell'
  BY DEF Dial, DialFails, ShellTypeOK, Tracked, OwnShell
<1> QED BY <1>1, <1>2, <1>3, <1>4

LEMMA EndInv ==
    ASSUME ShellInv, NEW s \in Sessions, CloseBoth(s) \/ Finish(s) PROVE ShellInv'
<1> USE ShellAssumption DEF ShellInv
<1>0. Busy(s) /\ \A t \in Sessions : Busy(t)' => Busy(t)
  BY DEF CloseBoth, Finish, ShellTypeOK, Busy
<1>1. ShellTypeOK'
  BY DEF CloseBoth, Finish, ShellTypeOK
<1>2. StreamInv'
  BY DEF CloseBoth, Finish, ShellTypeOK, StreamInv, OneTerminal, Accepted, Used
<1>3. CalmInv'
  <2>1. CASE CloseBoth(s)
    BY <1>0, <2>1 DEF CloseBoth, ShellTypeOK, CalmInv
  <2>2. CASE Finish(s)
    BY <1>0, <2>2 DEF Finish, ShellTypeOK, CalmInv
  <2> QED BY <2>1, <2>2
<1>4. Tracked'
  <2>1. CASE CloseBoth(s)
    BY <2>1 DEF CloseBoth, Tracked
  <2>2. CASE Finish(s)
    BY <1>0, <2>2 DEF Finish, StreamInv, CalmInv, Tracked
  <2> QED BY <2>1, <2>2
<1>5. OwnShell'
  <2>1. /\ \A t \in Sessions : stream'[t] = "filed" => stream[t] = "filed"
        /\ UNCHANGED <<cli, partner, calm>>
    BY DEF CloseBoth, Finish, ShellTypeOK
  <2> QED BY <2>1 DEF OwnShell
<1> QED BY <1>1, <1>2, <1>3, <1>4, <1>5

\* A shell that ends takes nothing with it.
LEMMA ShellDiesInv ==
    ASSUME ShellInv, NEW s \in Sessions, Exit(s) \/ Hangup(s) \/ Output(s) PROVE ShellInv'
<1> USE DEF ShellInv, Exit, Hangup, Output
<1>1. ShellTypeOK' /\ Tracked'
  BY DEF ShellTypeOK, Tracked
<1>2. StreamInv' /\ OwnShell'
  BY DEF StreamInv, OneTerminal, OwnShell
<1>3. CalmInv'
  BY DEF CalmInv, Busy
<1> QED BY <1>1, <1>2, <1>3

-----------------------------------------------------------------------------
\* The daemon's two accept loops.
LEMMA FileInv ==
    ASSUME ShellInv, NEW s \in Sessions, File(s) PROVE ShellInv'
<1> USE ShellAssumption DEF ShellInv, agentVars
<1>1. ShellTypeOK'
  BY DEF File, ShellTypeOK
<1>2. StreamInv'
  BY DEF File, ShellTypeOK, StreamInv, OneTerminal, Accepted, Used
<1>3. cli[s] \in {"ready", "bridged", "gone"}
  BY DEF File, ShellTypeOK, StreamInv
<1>4. ASSUME calm
      PROVE  /\ cli[s] = "ready" /\ Busy(s)
             /\ pending \in {s, NoSession}
  <2>1. cli[s] = "ready" /\ Busy(s)
    BY <1>3, <1>4 DEF File, CalmInv, Busy
  <2>2. ASSUME pending # NoSession PROVE pending = s
    BY <1>4, <2>1, <2>2 DEF CalmInv, Busy, ShellTypeOK
  <2> QED BY <2>1, <2>2
<1>5. \A t \in Sessions : Busy(t)' <=> Busy(t)
  BY DEF File, Busy
<1>6. CalmInv'
  BY <1>4, <1>5 DEF File, ShellTypeOK, CalmInv
<1>7. Tracked'
  BY DEF File, Tracked
<1>8. OwnShell'
  BY <1>4 DEF File, ShellTypeOK, OwnShell
<1> QED BY <1>1, <1>2, <1>6, <1>7, <1>8

LEMMA ConnectInv ==
    ASSUME ShellInv, NEW s \in Sessions, Connect(s) PROVE ShellInv'
<1> USE ShellAssumption DEF ShellInv, agentVars
<1>0. /\ cli[s] = "ready" /\ Busy(s) /\ calm' = (calm /\ InTime(s))
      /\ UNCHANGED <<rpc, active, shell, closed, copier>>
      /\ pending \in Sessions \cup {NoSession} /\ pending' = NoSession
      /\ \A t \in Sessions : t # s => cli'[t] = cli[t] /\ partner'[t] = partner[t]
      /\ \A t \in Sessions : t # pending => stream'[t] = stream[t]
      /\ \A t \in Sessions : stream'[t] # stream[t] => stream[t] = "filed" /\ stream'[t] = "bridged"
      /\ \A t \in Sessions : Busy(t)' => Busy(t)
  BY DEF Connect, NothingPending, ShellTypeOK, Busy
<1>1. ShellTypeOK'
  BY DEF Connect, NothingPending, ShellTypeOK
<1>2. \/ /\ pending # NoSession /\ partner'[s] = pending /\ cli'[s] = "bridged"
         /\ stream'[pending] \in Used
      \/ pending = NoSession /\ partner' = partner /\ cli'[s] = "gone" /\ stream' = stream
  BY DEF Connect, ShellTypeOK, StreamInv, Accepted, Used
<1>3. StreamInv'
  <2>1. OneTerminal'
    BY <1>0, <1>2 DEF StreamInv, OneTerminal, ShellTypeOK
  <2>2. \A t \in Sessions :
           partner'[t] # NoSession => stream'[partner'[t]] \in Used /\ partner'[t] # pending'
    BY <1>0, <1>2 DEF StreamInv, ShellTypeOK, Used
  <2>3. \A t \in Sessions : copier[t] \in {"none", "dial"} => stream'[t] = "none"
    BY <1>0 DEF StreamInv
  <2> QED BY <1>0, <1>2, <2>1, <2>2, <2>3 DEF StreamInv
<1>4. calm => pending \in {s, NoSession}
  BY <1>0 DEF CalmInv, Busy
<1>5. CalmInv'
  <2> SUFFICES ASSUME calm, InTime(s) PROVE CalmInv'
      BY <1>0 DEF CalmInv
  <2>1. \A t \in Sessions : cli'[t] \in {"bridged", "gone"} =>
           copier[t] # "dial" /\ stream'[t] \notin {"queued", "ended"}
    BY <1>0 DEF CalmInv, InTime
  <2>2. \A t \in Sessions : stream'[t] # "filed"
    BY <1>0, <1>2 DEF CalmInv, Used
  <2> QED BY <1>0, <2>1, <2>2 DEF CalmInv
<1>6. Tracked'
  BY <1>0 DEF Tracked
<1>7. OwnShell'
  BY <1>0, <1>2, <1>4 DEF CalmInv, OwnShell, Used
<1> QED BY <1>1, <1>3, <1>5, <1>6, <1>7

\* The end of a partner, from either side.
LEMMA UnbridgeInv ==
    ASSUME ShellInv, NEW s \in Sessions, Leave(s) \/ Cut(s) PROVE ShellInv'
<1> USE ShellAssumption DEF ShellInv, agentVars
<1>0. /\ cli[s] = "bridged" /\ partner[s] \in Sessions /\ partner[s] # pending
      /\ stream[partner[s]] \in Used
      /\ cli' = [cli EXCEPT ![s] = "gone"]
      /\ UNCHANGED <<rpc, active, shell, closed, copier, pending, partner, calm>>
      /\ \A t \in Sessions : stream'[t] = stream[t] \/ (t = partner[s] /\ stream'[t] = "shut")
  BY DEF Leave, Cut, ShellTypeOK, StreamInv
<1>1. ShellTypeOK'
  BY <1>0 DEF Leave, Cut, ShellTypeOK
<1>2. StreamInv'
  BY <1>0 DEF ShellTypeOK, StreamInv, OneTerminal, Accepted, Used
<1>3. \A t \in Sessions : Busy(t)' => Busy(t)
  BY <1>0 DEF ShellTypeOK, Busy
<1>4. CalmInv'
  BY <1>0, <1>3 DEF ShellTypeOK, CalmInv, Used
<1>5. Tracked'
  BY <1>0 DEF Tracked
<1>6. OwnShell'
  BY <1>0 DEF ShellTypeOK, StreamInv, OwnShell
<1> QED BY <1>1, <1>2, <1>4, <1>5, <1>6

LEMMA NextShell == ShellInv /\ [ShellNext]_shellVars => ShellInv'
<1> SUFFICES ASSUME ShellInv, [ShellNext]_shellVars PROVE ShellInv'
    OBVIOUS
<1>1. CASE UNCHANGED shellVars
  BY <1>1 DEF shellVars, ShellInv, ShellTypeOK, StreamInv, CalmInv, Busy, Tracked, OneTerminal, OwnShell
<1> QED BY <1>1, AskInv, AnswerInv, DialInv, EndInv, ShellDiesInv, FileInv, ConnectInv,
           UnbridgeInv DEF ShellNext

-----------------------------------------------------------------------------
\* Two terminals are never bridged with one shell, however sessions overlap and
\* however late their streams come.
THEOREM TerminalsExclusive == ShellSpec => []OneTerminal
<1>1. ShellInv => OneTerminal
  BY DEF ShellInv, StreamInv
<1> QED BY InitShell, NextShell, <1>1, PTL DEF ShellSpec

\* Sessions that follow one another leave no shell behind that the next request
\* would not find.
THEOREM ShellsTracked == ShellSpec => []Tracked
<1>1. ShellInv => Tracked
  BY DEF ShellInv
<1> QED BY InitShell, NextShell, <1>1, PTL DEF ShellSpec

\* Sessions that follow one another, with streams in time, get their own shell.
THEOREM ShellsOwn == ShellSpec => []OwnShell
<1>1. ShellInv => OwnShell
  BY DEF ShellInv
<1> QED BY InitShell, NextShell, <1>1, PTL DEF ShellSpec
-----------------------------------------------------------------------------
\* The agent's sessions and the daemon's streams keep their types.
THEOREM ShellTypes == ShellSpec => []ShellTypeOK
<1>1. ShellInv => ShellTypeOK
  BY DEF ShellInv
<1> QED BY InitShell, NextShell, <1>1, PTL DEF ShellSpec
=============================================================================
