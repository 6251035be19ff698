------------------------------- MODULE GraphRun -------------------------------
(***************************************************************************)
(* What executing a graph of nodes promises. A node is executed at most    *)
(* once, and only after everything it needs has been dealt with; a node    *)
(* that was executed or skipped stays so. One node, the planner, may       *)
(* exchange the nodes nobody has touched for others and say what those     *)
(* need. The run is closed with a verdict once nothing is left to do, or   *)
(* it is lost, and nothing happens in it any more. GraphEngine implements  *)
(* this specification.                                                     *)
(***************************************************************************)
CONSTANTS Nodes, Planner, InitialNodes

VARIABLES before, \* what each node needs
          node, verdict

graphVars == <<before, node, verdict>>

DealtWith == {"executed", "skipped", "out"}
Untouched == {"waiting", "out"}
States    == DealtWith \cup {"waiting", "running"}

GraphInit ==
    /\ before \in [Nodes -> SUBSET Nodes]
    /\ node = [n \in Nodes |-> IF n \in InitialNodes THEN "waiting" ELSE "out"]
    /\ verdict = "open"

MayRun(n) == node[n] = "waiting" /\ \A m \in before[n] : node[m] \in DealtWith

(* A long node is under way for a while; a short one is one step.          *)
Start(n)   == MayRun(n) /\ node' = [node EXCEPT ![n] = "running"]
Finish(n)  == node[n] = "running" /\ node' = [node EXCEPT ![n] = "executed"]
Execute(n) == MayRun(n) /\ node' = [node EXCEPT ![n] = "executed"]

Changed == {n \in Nodes : node'[n] # node[n]}

Skip ==
    /\ node' \in [Nodes -> States]
    /\ \A n \in Changed : node[n] = "waiting" /\ node'[n] = "skipped"

Replan ==
    /\ node' \in [Nodes -> States]
    /\ MayRun(Planner) /\ node'[Planner] = "executed"
    /\ \A n \in Changed \ {Planner} : {node[n], node'[n]} \subseteq Untouched
    /\ before' \in [Nodes -> SUBSET Nodes]
    /\ \A n \in Nodes : node[n] # "out" => before'[n] = before[n]

Close(v) == verdict' = v /\ (v # "lost" => \A n \in Nodes : node[n] \in DealtWith)

GraphNext ==
    /\ verdict = "open"
    /\ \/ Skip /\ UNCHANGED <<before, verdict>>
       \/ (\E n \in Nodes : Start(n) \/ Finish(n) \/ Execute(n)) /\ UNCHANGED <<before, verdict>>
       \/ Replan /\ UNCHANGED verdict
       \/ \E v \in {"accepted", "failed", "lost"} : Close(v) /\ UNCHANGED <<before, node>>

GraphSpec == GraphInit /\ [][GraphNext]_graphVars
=============================================================================
