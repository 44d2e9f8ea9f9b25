------------------------------ MODULE MCAccess ------------------------------
(* ContainerAccess, with BridgeNetwork in it, and ShellSessions in one run.    *)
(* They share no variable, so that interleaving them would show nothing more:  *)
(* in each behaviour one of them moves and the other stays where it starts.    *)
EXTENDS MCContainerAccess, MCShellSessions

EitherInit == AccessInit /\ ShellInit

EitherNext ==
    \/ ShellInit /\ UNCHANGED shellVars /\ AccessNext
    \/ AccessInit /\ UNCHANGED allVars /\ ShellNext

EitherSpec == EitherInit /\ [][EitherNext]_<<allVars, shellVars>>
=============================================================================
