----------------------------- MODULE ModelGraph -----------------------------
(***************************************************************************)
(* A model's graph as the three engines that compile it read it: nodes in  *)
(* execution order, who consumes a tensor, and the five-node GELU chain    *)
(* that each of them turns into one operation (lw_match_fused_gelu).       *)
(*                                                                         *)
(* A graph g is a record:                                                  *)
(*   nodes    a sequence of [op, ins, out] (the attributes an engine needs *)
(*            are further fields of the node)                              *)
(*   rank     tensor -> its number of dimensions                           *)
(*   bytes    tensor -> its size, in lines of 64 bytes                     *)
(*   const    the tensors that hold weights                                *)
(*   input, outputs                                                        *)
(* Nodes are numbered from 1.                                              *)
(***************************************************************************)
EXTENDS Naturals, Sequences, FiniteSets

Nodes(g) == DOMAIN g.nodes
Tensors(g) == DOMAIN g.bytes
Slots(g, n) == DOMAIN g.nodes[n].ins
Ins(g, n) == {g.nodes[n].ins[s] : s \in Slots(g, n)}
Out(g, n) == g.nodes[n].out

WellFormed(g) ==
  /\ \A n \in Nodes(g) : /\ Out(g, n) \notin g.const \cup {g.input}
                         /\ \A m \in Nodes(g) : m # n => Out(g, m) # Out(g, n)
                         /\ \A t \in Ins(g, n) :
                               \/ t \in g.const \cup {g.input}
                               \/ \E m \in 1 .. n - 1 : Out(g, m) = t
  /\ \A t \in Tensors(g) : g.bytes[t] \in Nat \ {0} /\ g.rank[t] \in 1 .. 4
  /\ g.outputs \subseteq {Out(g, n) : n \in Nodes(g)}

WellTyped(g) ==
  /\ g.nodes \in Seq({g.nodes[n] : n \in Nodes(g)})
  /\ \A n \in Nodes(g) : /\ g.nodes[n].ins \in Seq(Tensors(g)) \ {<<>>}
                         /\ Out(g, n) \in Tensors(g)
  /\ Tensors(g) \subseteq Nat \ {0} /\ g.input \in Tensors(g)

(* The node that produces t; 0 for the graph input and for weights.        *)
Producer(g, t) ==
  IF \E n \in Nodes(g) : Out(g, n) = t
    THEN CHOOSE n \in Nodes(g) : Out(g, n) = t
    ELSE 0

Readers(g, t) == {n \in Nodes(g) : t \in Ins(g, n)}
UseCount(g, t) ==
  Cardinality({u \in UNION {{n} \X Slots(g, n) : n \in Nodes(g)} :
                 g.nodes[u[1]].ins[u[2]] = t})

(* t is consumed exactly once, by node n, and is not an output.            *)
SingleConsumer(g, t, n) ==
  t \notin g.outputs /\ UseCount(g, t) = 1 /\ Readers(g, t) = {n}

(* Every consumer of t is one of the span nodes from first on.             *)
ConsumedWithin(g, t, first, span) ==
  /\ t \notin g.outputs /\ Readers(g, t) # {}
  /\ Readers(g, t) \subseteq first .. first + span - 1

(* Div -> Erf -> Add -> Mul -> Mul, the first Mul reading the chain's      *)
(* source again, and the other operands constant scalars (their values are *)
(* left out).                                                              *)
Chain == <<"div", "erf", "add", "mul", "mul">>
ChainSource(g, n) == g.nodes[n].ins[1]
ConstantScalar(g, t) == t \in g.const /\ g.bytes[t] = 1
MatchesGelu(g, n) ==
  /\ n + 4 <= Len(g.nodes)
  /\ \A k \in 0..4 : /\ g.nodes[n + k].op = Chain[k + 1]
                     /\ Len(g.nodes[n + k].ins) = (IF k = 1 THEN 1 ELSE 2)
                     /\ g.bytes[Out(g, n + k)] = g.bytes[ChainSource(g, n)]
  /\ \A k \in 0..3 : Out(g, n + k) \in Ins(g, n + k + 1)
  /\ ChainSource(g, n) \in Ins(g, n + 3)
  /\ ConstantScalar(g, g.nodes[n].ins[2])
  /\ \A k \in {2, 4} : \E t \in Ins(g, n + k) : ConstantScalar(g, t)

(* Each of the chain's four temporaries is last used by the next node.     *)
TemporariesPrivate(g, n) ==
  \A k \in 0..3 : LET t == Out(g, n + k)
                  IN  /\ t \notin g.outputs
                      /\ n + k + 1 \in Readers(g, t)
                      /\ \A m \in Readers(g, t) : m <= n + k + 1

GeluAt(g, n) == MatchesGelu(g, n) /\ TemporariesPrivate(g, n)
=============================================================================
