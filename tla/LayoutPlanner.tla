---------------------------- MODULE LayoutPlanner ----------------------------
(***************************************************************************)
(* The layout planner (layout_planner.c): which nodes of a graph run on    *)
(* NHWC maps, and in which layouts the planner expects to find a tensor.   *)
(* Two engines are built on it, the fast plan and the compiled detection   *)
(* program.                                                                *)
(*                                                                         *)
(* A graph of ModelGraph has these fields more:                            *)
(*   shape    tensor -> a name for its dimensions                          *)
(*   neutral  the rank-4 tensors [N,1,H,W] and [N,C,1,1], which read the   *)
(*            same in both layouts                                         *)
(*   vector   the neutral ones of the form [1,C,1,1]                       *)
(* and its nodes the field form:                                           *)
(*   conv    "pointwise", "dense" (group 1, at least 8 channels out),      *)
(*           "depthwise" (8 channels or a multiple), "other"               *)
(*   up      (ConvTranspose) "double" (2x2, stride 2, no padding), "other" *)
(*   reduce  "spatial", "other";  concat "channels", "other";              *)
(*   resize  "integer", "other"                                            *)
(* Weights with one line are scalars or have one float per channel.        *)
(***************************************************************************)
EXTENDS ModelGraph

Same(g, t, u) == g.shape[t] = g.shape[u]
Rank4(g, t) == g.rank[t] = 4
IsMap(g, t) == Rank4(g, t) /\ t \notin g.neutral   \* the layout of t matters

Unary == {"relu", "erf", "sigmoid", "sqrt", "hard_sigmoid"}
Binary == {"add", "mul", "div"}

(* A scalar or a value per channel.                                        *)
ChannelBroadcast(g, t) ==
  (t \in g.const /\ g.bytes[t] = 1) \/ t \in g.vector

BinaryCompatible(g, n) ==
  LET left == g.nodes[n].ins[1]
      right == g.nodes[n].ins[2]
  IN  \/ ChannelBroadcast(g, left) \/ ChannelBroadcast(g, right)
      \/ Same(g, left, right) /\ Same(g, left, Out(g, n))

ConvCapable(g, n) == g.nodes[n].op = "conv" /\ g.nodes[n].form # "other"
TransposeCapable(g, n) == g.nodes[n].op = "up" /\ g.nodes[n].form = "double"
ReduceCapable(g, n) == g.nodes[n].op = "reduce" /\ g.nodes[n].form = "spatial"
ConcatCapable(g, n) ==
  /\ g.nodes[n].op = "concat" /\ g.nodes[n].form = "channels"
  /\ \A t \in Ins(g, n) : t \notin g.const /\ Rank4(g, t)

(* lw_layout_node_nhwc_capable                                             *)
NhwcCapable(g, n) ==
  LET node == g.nodes[n]
      first == node.ins[1]
      maps == Rank4(g, first) /\ Rank4(g, node.out)
  IN  /\ maps
      /\ \/ ConvCapable(g, n) \/ TransposeCapable(g, n)
         \/ ReduceCapable(g, n) \/ ConcatCapable(g, n)
         \/ node.op \in Binary /\ Same(g, first, node.out) /\ BinaryCompatible(g, n)
         \/ node.op \in Unary \cup {"bn"} /\ Same(g, first, node.out)
         \/ node.op = "pool"
         \/ node.op = "resize" /\ node.form = "integer"

DenseConv(g, n) == g.nodes[n].op = "conv" /\ g.nodes[n].form \in {"pointwise", "dense"}

(* The inputs whose layout a node asks for.                                *)
ActivationInputs(g, n) == Ins(g, n) \ (g.const \cup g.neutral)

StartsNhwcSegment(g, n) ==
  NhwcCapable(g, n) /\ (g.nodes[n].op = "up" \/ DenseConv(g, n))

(* The first consumer of the graph input decides for it.                   *)
InputCanStartNhwc(g) ==
  /\ IsMap(g, g.input)
  /\ \E n \in Readers(g, g.input) : /\ \A m \in Readers(g, g.input) : n <= m
                                    /\ StartsNhwcSegment(g, n)

(* lw_layout_plan_build: a fold over the nodes.  available[t] are the      *)
(* layouts in which t will be found, layout[n] is that of node n.          *)
InitialLayouts(g, direct) ==
  [available |-> [t \in Tensors(g) |->
     IF direct /\ t = g.input /\ InputCanStartNhwc(g) THEN {"NHWC"} ELSE {"NCHW"}],
   layout |-> [n \in Nodes(g) |-> "NCHW"]]

ChooseNhwc(g, p, n) ==
  /\ NhwcCapable(g, n)
  /\ \/ \E t \in ActivationInputs(g, n) : "NHWC" \in p.available[t]
     \/ DenseConv(g, n)

Visit(g, p, n) ==
  LET chosen == IF ChooseNhwc(g, p, n) THEN "NHWC" ELSE "NCHW"
  IN  [available |-> [t \in Tensors(g) |->
         CASE t = Out(g, n) -> IF t \in g.neutral THEN {"NCHW", "NHWC"} ELSE {chosen}
           [] t \in ActivationInputs(g, n) -> p.available[t] \cup {chosen}
           [] OTHER -> p.available[t]],
       layout |-> [p.layout EXCEPT ![n] = chosen]]

Visited(g, direct) ==
  LET plan[n \in 0 .. Len(g.nodes)] ==
        IF n = 0 THEN InitialLayouts(g, direct) ELSE Visit(g, plan[n - 1], n)
  IN  plan
LayoutPlan(g, direct) ==
  LET last == Visited(g, direct)[Len(g.nodes)]
  IN  [last EXCEPT !.available = [t \in Tensors(g) |->
         IF t \in g.outputs THEN @[t] \cup {"NCHW"} ELSE @[t]]]
=============================================================================
