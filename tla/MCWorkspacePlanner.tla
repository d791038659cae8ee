------------------------ MODULE MCWorkspacePlanner ------------------------
(* Small graphs for WorkspacePlanner: every graph of four nodes that each  *)
(* read one or two earlier tensors, the second node with one output or     *)
(* two; and a fused GELU chain between nodes whose tensors live on.        *)
EXTENDS WorkspacePlanner

CONSTANTS Sizes

OneOrTwoOf(S) ==
  {<<a>> : a \in S} \cup {p \in S \X S : p[1] < p[2]}
Other(ins, outs) == [op |-> "Other", ins |-> ins, outs |-> outs]

SmallNodes ==
  {<<Other(<<0>>, <<1>>), Other(<<1>>, <<2>>), Other(r3, <<3>>), Other(r4, <<4>>)>> :
     r3 \in OneOrTwoOf({1, 2}), r4 \in OneOrTwoOf({1, 2, 3})}
SplitNodes ==
  {<<Other(<<0>>, <<1>>), Other(<<1>>, <<2, 3>>), Other(r3, <<4>>), Other(r4, <<5>>)>> :
     r3 \in OneOrTwoOf({1, 2, 3}), r4 \in {<<a, 4>> : a \in {1, 2, 3, 4}}}

Small ==
  {[nodes |-> n, size |-> s, outputs |-> {4}] :
     n \in SmallNodes, s \in [1..4 -> Sizes]} \cup
  {[nodes |-> n, size |-> s, outputs |-> {5}] :
     n \in SplitNodes, s \in [1..5 -> Sizes]}

(* Z, X (with or without a neighbour 10), the chain 3..7 over X, Y and the *)
(* output.  The last node's reads decide how long Z and the chain's sum    *)
(* (5) live; when it reads the sum the chain is not fused.                 *)
ChainNodes(second, last) ==
  <<Other(<<0>>, <<1>>), Other(<<1>>, second),
    [op |-> "Div", ins |-> <<2>>, outs |-> <<3>>],
    [op |-> "Erf", ins |-> <<3>>, outs |-> <<4>>],
    [op |-> "Add", ins |-> <<4>>, outs |-> <<5>>],
    [op |-> "Mul", ins |-> <<2, 5>>, outs |-> <<6>>],
    [op |-> "Mul", ins |-> <<6>>, outs |-> <<7>>],
    Other(<<7>>, <<8>>),
    Other(<<8, last>>, <<9>>)>>

Chains ==
  {[nodes |-> ChainNodes(second, last), outputs |-> {9},
    size |-> [t \in 1..10 |-> IF t = 1 THEN z ELSE IF t = 10 THEN 1
                             ELSE IF t \in 8..9 THEN y[t] ELSE x]] :
     second \in {<<2>>, <<2, 10>>}, last \in {1, 5, 7},
     z \in Sizes, x \in Sizes, y \in [8..9 -> Sizes]}

MCGraphs == Small \cup Chains

(* The default build under a limit that some graphs miss; and the build    *)
(* with both planners and elided temporaries, under a limit that either,   *)
(* both or none of the planners can meet.                                  *)
MCBuilds ==
  {[planner_v2 |-> FALSE, fusion_memory |-> FALSE, max_workspace |-> 9],
   [planner_v2 |-> TRUE, fusion_memory |-> TRUE, max_workspace |-> 7]}
=============================================================================
