------------------------------ MODULE Workflow ------------------------------
(***************************************************************************)
(* What the process store promises: every process is created once and then *)
(* follows the workflow graph, one edge at a time, and never leaves a      *)
(* decision.  Versions, clients and evidence are the store's own business. *)
(***************************************************************************)
CONSTANTS
    Processes,
    States, Terminal,
    Normal      \* [States -> SUBSET States], the edges

VARIABLE state  \* [Processes -> States \cup {"none"}]

WorkflowInit == state = [p \in Processes |-> "none"]

Admit(p) ==
    /\ state[p] = "none"
    /\ state' = [state EXCEPT ![p] = "received"]

Move(p, t) ==
    /\ state[p] \in States \ Terminal
    /\ t \in Normal[state[p]]
    /\ state' = [state EXCEPT ![p] = t]

WorkflowNext == \E p \in Processes : Admit(p) \/ \E t \in States : Move(p, t)

WorkflowSpec == WorkflowInit /\ [][WorkflowNext]_state
=============================================================================
