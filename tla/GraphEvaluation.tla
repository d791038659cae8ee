-------------------------- MODULE GraphEvaluation --------------------------
(***************************************************************************)
(* What an engine promises of one run of a graph: every tensor's value is  *)
(* computed from the values of its producer's operands, in an order the    *)
(* graph allows, any number of nodes at a time; and a run that succeeds    *)
(* has computed the outputs.  A run may be given up at any time.           *)
(***************************************************************************)
EXTENDS ModelGraph

VARIABLES
  graph,
  evaluated,  \* the tensors whose value this run has computed
  outcome     \* "none", "running", "ok"

evaluation == <<graph, evaluated, outcome>>

Init == evaluated = {} /\ outcome = "none"

Begin ==
  /\ outcome # "running" /\ outcome' = "running"
  /\ evaluated' = {graph.input}
  /\ UNCHANGED graph

Evaluate ==
  /\ outcome = "running"
  /\ evaluated \subseteq evaluated'
  /\ \A t \in evaluated' \ evaluated :
       \E n \in Nodes(graph) : /\ Out(graph, n) = t
                               /\ Ins(graph, n) \subseteq evaluated' \cup graph.const
  /\ UNCHANGED <<graph, outcome>>

Return ==
  /\ outcome = "running" /\ outcome' = "ok"
  /\ graph.outputs \subseteq evaluated
  /\ UNCHANGED <<graph, evaluated>>

GiveUp ==
  /\ outcome = "running" /\ outcome' = "none"
  /\ evaluated' = {}
  /\ UNCHANGED graph

Next == Begin \/ Evaluate \/ Return \/ GiveUp
Spec == Init /\ [][Next]_evaluation
=============================================================================
