-------------------------- MODULE ContainerService --------------------------
(***************************************************************************)
(* What the container manager promises its clients: the status of every    *)
(* container, as container.list shows it, and what a restart of the VM does *)
(* to it.  ContainerManager implements this specification.                 *)
(***************************************************************************)
CONSTANT Names

VARIABLES
    status,     \* of the container of each name
    unsettled   \* names whose removal has begun and may yet be undone

svcVars == <<status, unsettled>>

Init == status = [n \in Names |-> "absent"] /\ unsettled = {}

\* A name is taken once, and its creation settles what was there before.
Create(n) ==
    /\ status[n] = "absent" /\ status' = [status EXCEPT ![n] = "created"]
    /\ unsettled' = unsettled \ {n}

Start(n) ==
    /\ status[n] \in {"created", "stopped"}
    /\ status' = [status EXCEPT ![n] = "running"]
    /\ UNCHANGED unsettled

\* Asked by Stop or not, the process ends.
Exit(n) ==
    /\ status[n] = "running" /\ status' = [status EXCEPT ![n] = "stopped"]
    /\ UNCHANGED unsettled

\* Only a container that does not run is removed.
Remove(n) ==
    /\ status[n] \in {"created", "stopped"}
    /\ status' = [status EXCEPT ![n] = "absent"]
    /\ unsettled' = unsettled \cup {n}

\* The removal is complete: it can no longer be undone.
Settle(n) == n \in unsettled /\ unsettled' = unsettled \ {n} /\ UNCHANGED status

\* Containers come back, stopped; of the names being removed some may.
Restart ==
    \E back \in SUBSET unsettled :
        /\ status' = [n \in Names |-> IF status[n] # "absent" \/ n \in back
                                      THEN "stopped" ELSE "absent"]
        /\ unsettled' = unsettled \ back

Next ==
    \/ Restart
    \/ \E n \in Names :
          Create(n) \/ Start(n) \/ Exit(n) \/ Remove(n) \/ Settle(n)

Spec == Init /\ [][Next]_svcVars
=============================================================================
