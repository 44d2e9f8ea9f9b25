----------------------------- MODULE MCForwards -----------------------------
(* PortListeners (two containers) and Tunnels (three clients of one port, one  *)
(* of another) in one run.  They share no variable, so that interleaving them  *)
(* would show nothing more: in each behaviour one of them moves and the other  *)
(* stays where it starts.                                                      *)
EXTENDS MCPortListeners, Tunnels, TLC

CONSTANTS t1, t2, t3, t4

ThreeAndOne == t1 :> http @@ t2 :> http @@ t3 :> http @@ t4 :> psql

\* Which of the two ports web has makes no difference.
ForwardsInit == Init /\ TunnelInit /\ portOf[web] = http

ForwardsNext ==
    \/ TunnelInit /\ UNCHANGED tunnelVars /\ Next
    \/ Init /\ UNCHANGED vars /\ TunnelNext

allVars == <<vars, tunnelVars>>

\* The fairness of TunnelFairSpec, where the tunnels move.
ForwardsSpec ==
    /\ ForwardsInit /\ [][ForwardsNext]_allVars
    /\ WF_allVars(Init /\ (File \/ Discard) /\ UNCHANGED vars)
    /\ \A t \in Clients :
          /\ WF_allVars(Init /\ (Connect(t) \/ Refuse(t)) /\ UNCHANGED vars)
          /\ WF_allVars(Init /\ (Poll(t) \/ Timeout(t)) /\ UNCHANGED vars)
=============================================================================
