----------------------------- MODULE RecProgram -----------------------------
(***************************************************************************)
(* The compiled recognition program: a model's graph lowered in two passes *)
(* to physical operations over one arena (x64_rec_backend_compile.c), and  *)
(* the run of those operations (x64_rec_backend_execute.c).                *)
(*                                                                         *)
(* The first pass finds out how long every value lives, the arena is       *)
(* planned, and the second pass repeats the lowering with the offsets.     *)
(* Operators that only rename a tensor are elided: the result is an alias. *)
(* A chain of nodes may become one operation, and a convolution takes the  *)
(* additions and the GELU behind it into its epilogue.                     *)
(*                                                                         *)
(* What an operation computes is abstracted to two questions: does it find *)
(* the values of its operands where it reads, and in the memory order it   *)
(* assumes (NHWC maps next to canonical, row-major tensors)?  Weights are  *)
(* in g.const; a node has the fields                                       *)
(*   op, ins, out                                                          *)
(*   form   of a "conv": "pointwise", "depthwise", "stem" (dense, 3 by 3,  *)
(*          stride 2, padded by 1), "dense", "other"; of a "reshape":      *)
(*          "channels" where dimension 1 is kept, else "flat"              *)
(* A weight of one float per channel has one line, a map more.  Weights    *)
(* with the full size of a map, and a reshape or an unary operator of a    *)
(* weight, do not occur: the converter folds them.                         *)
(***************************************************************************)
EXTENDS ModelGraph, ArenaPlan

CONSTANTS
  Graphs,      \* the graphs to compile
  Strategies,  \* {"NHWC"}, {"NCHW"} or both: lw_x64_rec_compile_strategy
  FfnTiling    \* LW_EXPERIMENTAL_REC_FFN_TILING

ASSUME GraphsWellFormed == \A g \in Graphs : WellFormed(g)
\* The operands of a convolution after the first are weights, an elementwise
\* operator has two, a reshape has one and keeps the number of elements, and
\* what is convolved, reshaped or multiplied by a matrix is no weight.
ASSUME OperandsAssumption ==
  \A g \in Graphs :
    /\ WellTyped(g)
    /\ \A n \in Nodes(g) : LET x == g.nodes[n] IN
         /\ x.op \in {"conv", "reshape", "matmul"} => x.ins[1] \notin g.const
         /\ x.op \in {"conv", "reshape"} => Ins(g, n) \ {x.ins[1]} \subseteq g.const
         /\ x.op \in {"add", "mul", "div"} => Len(x.ins) = 2
         /\ x.op = "reshape" => g.bytes[x.ins[1]] = g.bytes[x.out]
ASSUME StrategyAssumption == Strategies \subseteq {"NHWC", "NCHW"}
ASSUME TilingAssumption == FfnTiling \in BOOLEAN

VARIABLES
  graph,
  strategy,    \* program->backend_layout
  pc,          \* "lower", "plan", "ready", "run", "tail", "rejected"
  pass,        \* the pass of lower_ops, 1 or 2
  node,        \* the semantic node it is at
  ops,         \* program->ops, [kind, begin, count, ins, out, ffn]
  producer,    \* per value: the physical operation that writes it, -1: none
  last_use,    \* per value: the last physical operation that reads it, -1: none
  alias_of,    \* per value: what it is another name for, NoTensor: nothing
  offset,      \* per value: its place in the arena
  at,          \* the operation that run_backbone_ops executes next
  memory,      \* what the arena holds: a set of [value, offset, order]
  computed     \* the values this run has computed

lowering == <<pass, node, ops, producer, last_use, alias_of, offset>>
running == <<at, memory, computed>>
vars == <<graph, strategy, pc, lowering, plan, running>>

NoTensor == 0
Op(n) == graph.nodes[n].op
In(n, s) == graph.nodes[n].ins[s]
OutOf(n) == Out(graph, n)
Bytes(t) == graph.bytes[t]
IsConst(t) == t \in graph.const
Values == Tensors(graph)

(* The CTC tail: the last three nodes are a MatMul with a weight matrix,   *)
(* an Add of its result and a Softmax of that (detect_ctc).                *)
CtcTail ==
  LET n == Len(graph.nodes)
  IN  /\ n >= 3
      /\ Op(n - 2) = "matmul" /\ Op(n - 1) = "add" /\ Op(n) = "softmax"
      /\ IsConst(In(n - 2, 2))
      /\ In(n - 1, 1) = OutOf(n - 2) /\ In(n, 1) = OutOf(n - 1)
Limit == IF CtcTail THEN Len(graph.nodes) - 3 ELSE Len(graph.nodes)
Activation == In(Limit + 1, 1)

(* resolve_alias_root                                                      *)
Root(t) ==
  LET root[u \in Values] == IF alias_of[u] = NoTensor THEN u ELSE root[alias_of[u]]
  IN  root[t]

-----------------------------------------------------------------------------
(* The memory order a tensor is claimed to have: rec_value_is_nhwc_        *)
(* physical walks back through operators that keep the order.              *)
Transparent == {"add", "mul", "div", "erf", "relu", "softmax"}
MapProducers == {"conv", "bn", "reduce", "pool", "concat"}

(* Mutation: elementwise operators are not looked through. *)
ClaimedByProducer(t) ==
  LET n == Producer(graph, t) IN n = 0 \/ Op(n) \in MapProducers

ClaimedNhwc(t) ==
  LET claim[n \in 0 .. Len(graph.nodes)] ==
        IF n = 0 THEN TRUE
        ELSE IF Op(n) \in Transparent
          THEN LET from == IF Len(graph.nodes[n].ins) = 2 /\ IsConst(In(n, 1))
                             THEN In(n, 2) ELSE In(n, 1)
               IN  claim[Producer(graph, from)]
        ELSE Op(n) \in MapProducers
  IN  claim[Producer(graph, t)]

(* The order a map has under the strategy.                                 *)
MapOrder == IF strategy = "NHWC" THEN "nhwc" ELSE "canon"
Orders == {"nhwc", "canon"}

(* An operation's operand: a tensor, the offset embedded for it and the    *)
(* order its kernel reads.                                                 *)
Operand(t, want) == [value |-> t, offset |-> offset[t], want |-> want]
Operands(n, want) ==
  {Operand(t, want) : t \in {u \in Ins(graph, n) : ~IsConst(u)}}
Result(t, give) == [value |-> t, offset |-> offset[t], order |-> give]
Operation(kind, begin, count, ins, out) ==
  [kind |-> kind, begin |-> begin, count |-> count, ins |-> ins, out |-> out, ffn |-> FALSE]

(* Every input of the nodes lives at least until this operation.           *)
Touch(N, physical) ==
  [t \in Values |-> IF (\E n \in N : t \in Ins(graph, n)) /\ last_use[t] < physical
                      THEN physical ELSE last_use[t]]

Physical == Len(ops)   \* operations are numbered from 0, as in the code

(* An operation for the nodes node .. node + count - 1.                    *)
Emit(op) ==
  /\ ops' = Append(ops, op)
  /\ producer' = [producer EXCEPT ![op.out.value] = Physical]
  /\ last_use' = Touch(op.begin .. op.begin + op.count - 1, Physical)
  /\ node' = node + op.count
  /\ UNCHANGED <<pass, alias_of, offset>>

-----------------------------------------------------------------------------
(* compile_node: the operation of a single node.                           *)

(* Both operands of a SAME binary on rank-4 tensors are compared; a mixed  *)
(* pair is gathered into canonical order.                                  *)
IsSame(n) == Bytes(In(n, 2)) = Bytes(OutOf(n)) /\ ~IsConst(In(n, 2))
Claim(t) == IF ClaimedNhwc(t) THEN "nhwc" ELSE "canon"
Mixed(n) ==
  /\ strategy = "NHWC" /\ graph.rank[OutOf(n)] = 4 /\ IsSame(n)
  /\ Claim(In(n, 1)) # Claim(In(n, 2))

BinaryOperation(n) ==
  IF Mixed(n)
    THEN Operation("binary", n, 1,
                   {Operand(In(n, s), Claim(In(n, s))) : s \in 1..2},
                   Result(OutOf(n), "canon"))
    ELSE Operation("binary", n, 1, Operands(n, "same"), Result(OutOf(n), "same"))

(* The convolutions each strategy can lower.                               *)
ConvSupported(n) ==
  graph.nodes[n].form \in (IF strategy = "NHWC" THEN {"pointwise", "depthwise", "stem", "dense"}
                                                ELSE {"pointwise", "depthwise", "stem"})
Supported(n) ==
  /\ Op(n) = "conv" => ConvSupported(n)
  /\ Op(n) = "concat" => strategy = "NHWC" /\ graph.rank[OutOf(n)] = 4
  /\ Op(n) = "slice" => graph.rank[In(n, 1)] # 4

MapOperation(n) ==
  Operation(IF Op(n) = "conv" THEN graph.nodes[n].form ELSE Op(n), n, 1,
            Operands(n, MapOrder), Result(OutOf(n), MapOrder))
ByRank(n) == IF graph.rank[In(n, 1)] = 4 THEN MapOrder ELSE "canon"
AffineOperation(n) == Operation("bn", n, 1, Operands(n, ByRank(n)), Result(OutOf(n), ByRank(n)))
MeanOperation(n) == Operation("reduce", n, 1, Operands(n, ByRank(n)), Result(OutOf(n), ByRank(n)))
UnaryOperation(n) == Operation("unary", n, 1, Operands(n, "same"), Result(OutOf(n), "same"))
\* Transpositions, products of matrices and slices of a sequence.
CanonicalOperation(n) == Operation(Op(n), n, 1, Operands(n, "canon"), Result(OutOf(n), "canon"))

CompileNode(n) ==
  CASE Op(n) \in {"conv", "pool", "concat"} -> MapOperation(n)
    [] Op(n) = "bn" -> AffineOperation(n)
    [] Op(n) = "reduce" -> MeanOperation(n)
    [] Op(n) \in {"add", "mul", "div"} -> BinaryOperation(n)
    [] Op(n) \in {"relu", "erf", "softmax"} -> UnaryOperation(n)
    [] OTHER -> CanonicalOperation(n)

-----------------------------------------------------------------------------
(* fold_conv_epilogue: what the convolution at node n takes along.  A fold *)
(* is [span, out, residual]; residual is NoTensor where there is none.     *)

OtherOperand(n, t) ==
  IF In(n, 1) = t THEN In(n, 2) ELSE IF In(n, 2) = t THEN In(n, 1) ELSE NoTensor

AddsTo(n, t) ==
  /\ n <= Limit /\ Op(n) = "add"
  /\ OtherOperand(n, t) # NoTensor
  /\ Bytes(OutOf(n)) = Bytes(t)
  /\ SingleConsumer(graph, t, n)

FoldBias(n, f) ==
  LET add == n + f.span
      other == OtherOperand(add, f.out)
  IN  IF AddsTo(add, f.out) /\ IsConst(other) /\ Bytes(other) = 1
        THEN [f EXCEPT !.span = @ + 1, !.out = OutOf(add)]
        ELSE f
FoldResidual(n, f) ==
  LET add == n + f.span
      other == OtherOperand(add, f.out)
  IN  IF AddsTo(add, f.out) /\ ~IsConst(other) /\ Bytes(other) = Bytes(f.out)
        THEN [f EXCEPT !.span = @ + 1, !.out = OutOf(add), !.residual = other]
        ELSE f
FoldGelu(n, f) ==
  LET first == n + f.span
  IN  IF /\ first + 4 <= Limit /\ GeluAt(graph, first)
         /\ ChainSource(graph, first) = f.out
         /\ ConsumedWithin(graph, f.out, first, 5)
        THEN [f EXCEPT !.span = @ + 5, !.out = OutOf(first + 4)]
        ELSE f

Fold(n) ==
  LET bare == [span |-> 1, out |-> OutOf(n), residual |-> NoTensor]
      form == graph.nodes[n].form
  IN  IF strategy # "NHWC" \/ form \in {"stem", "dense"} THEN bare
      ELSE IF form = "depthwise" THEN FoldBias(n, bare)
      ELSE FoldGelu(n, FoldResidual(n, FoldBias(n, bare)))

ConvOperation(n) ==
  LET f == Fold(n)
      residual == IF f.residual = NoTensor THEN {} ELSE {Operand(f.residual, MapOrder)}
  IN  Operation(graph.nodes[n].form, n, f.span,
                Operands(n, MapOrder) \cup residual, Result(f.out, MapOrder))

-----------------------------------------------------------------------------
(* lower_ops, one step per node or chain.                                  *)

IsReshape(n) == Op(n) = "reshape"
AtGelu == GeluAt(graph, node) /\ node + 4 <= Limit

LowerGelu ==
  /\ pc = "lower" /\ node <= Limit /\ AtGelu
  /\ Emit(Operation("gelu", node, 5, {Operand(ChainSource(graph, node), "same")},
                    Result(OutOf(node + 4), "same")))
  /\ UNCHANGED <<graph, strategy, pc, plan, running>>

(* A reshape between a sequence and a map moves data unless the map is     *)
(* canonical; every other reshape is another name.                         *)
ToMap(n) == strategy = "NHWC" /\ graph.rank[In(n, 1)] = 3 /\ graph.rank[OutOf(n)] = 4
FromMap(n) ==
  /\ strategy = "NHWC" /\ graph.rank[In(n, 1)] = 4 /\ graph.rank[OutOf(n)] = 3
  /\ ClaimedNhwc(In(n, 1))
Renames(n) == IsReshape(n) /\ ~ToMap(n) /\ ~FromMap(n)

Repack(n) ==
  IF FromMap(n)
    THEN Operation("repack", n, 1, Operands(n, "nhwc"), Result(OutOf(n), "canon"))
    ELSE Operation("repack", n, 1, Operands(n, "canon"),
                   Result(OutOf(n), IF graph.nodes[n].form = "channels" THEN "nhwc"
                                                                        ELSE "canon"))
LowerRepack ==
  /\ pc = "lower" /\ node <= Limit /\ ~AtGelu
  /\ IsReshape(node) /\ ~Renames(node)
  /\ Emit(Repack(node))
  /\ UNCHANGED <<graph, strategy, pc, plan, running>>

LowerAlias ==
  /\ pc = "lower" /\ node <= Limit /\ ~AtGelu
  /\ Renames(node)
  /\ alias_of' = [alias_of EXCEPT ![OutOf(node)] = In(node, 1)]
  /\ offset' = [offset EXCEPT ![OutOf(node)] = offset[In(node, 1)]]
  /\ producer' = [producer EXCEPT ![OutOf(node)] = node - 1]
  /\ node' = node + 1
  /\ UNCHANGED <<graph, strategy, pc, pass, ops, last_use, plan, running>>

LowerNode ==
  /\ pc = "lower" /\ node <= Limit /\ ~AtGelu
  /\ ~IsReshape(node) /\ Supported(node)
  /\ Emit(IF Op(node) = "conv" THEN ConvOperation(node) ELSE CompileNode(node))
  /\ UNCHANGED <<graph, strategy, pc, plan, running>>

(* An operator that cannot be lowered, or memory for packed weights that   *)
(* is not there: the program is freed.                                     *)
LowerFails ==
  /\ pc = "lower" /\ node <= Limit /\ ~AtGelu /\ ~IsReshape(node)
  /\ ~Supported(node) \/ Op(node) \in {"conv", "bn", "matmul"}
  /\ pc' = "rejected"
  /\ UNCHANGED <<graph, strategy, lowering, plan, running>>

-----------------------------------------------------------------------------
(* mark_ffn_pairs: an expansion with GELU directly before the projection   *)
(* that alone reads it.  A pair's first operation is not the second of the *)
(* pair before.                                                            *)

LastNode(o) == o.begin + o.count - 1
Activated(o) == o.count >= 6   \* only the GELU adds five nodes to a convolution
HasResidual(o) == Cardinality(o.ins) = 2
Pairs(i, uses) ==
  /\ FfnTiling /\ strategy = "NHWC" /\ CtcTail
  /\ i + 1 <= Len(ops)
  /\ LET a == ops[i]
         b == ops[i + 1]
         middle == OutOf(LastNode(a))
     IN  /\ a.kind = "pointwise" /\ b.kind = "pointwise"
         /\ Activated(a) /\ ~HasResidual(a) /\ ~Activated(b)
         /\ middle = In(b.begin, 1)
         /\ SingleConsumer(graph, middle, b.begin)
         /\ alias_of[middle] = NoTensor /\ uses[middle] = i
         /\ middle # Activation

MarkedUpTo[i \in Nat] ==
  IF i = 0 THEN {}
  ELSE LET before == MarkedUpTo[i - 1]
       IN  IF i - 1 \notin before /\ Pairs(i, last_use) THEN before \cup {i} ELSE before
Marked == MarkedUpTo[Len(ops)]

(* Mutation: the input's lifetime is left as it is. *)
NotStretched(marked) == last_use

(* The pair's input is read by the first operation while the second        *)
(* already writes: it lives one operation longer.                          *)
Stretched(marked) ==
  [t \in Values |->
     LET needed == {i \in marked : In(ops[i].begin, 1) = t}
     IN  IF \E i \in needed : last_use[t] < i
           THEN CHOOSE i \in needed : \A j \in needed : j <= i
           ELSE last_use[t]]

MarkPairs ==
  /\ ops' = [i \in DOMAIN ops |-> [ops[i] EXCEPT !.ffn = i \in Marked]]
  /\ last_use' = Stretched(Marked)

(* The tail reads the activation after the last operation.                 *)
ExtendActivation(uses) ==
  IF CtcTail /\ uses[Activation] < Len(ops) THEN [uses EXCEPT ![Activation] = Len(ops)]
                                            ELSE uses

(* Mutation: an alias does not lengthen its root's life. *)
LifeOfRootOnly(t, uses) ==
  LET first == IF t = graph.input THEN 0 ELSE producer[t]
      own == IF t = graph.input THEN Len(ops) ELSE uses[t]
      ends == {first, own}
  IN  [first |-> first, last |-> CHOOSE x \in ends : \A y \in ends : y <= x]

(* From its producer to its last use or that of any of its aliases; the    *)
(* caller rewrites the graph input between runs, so it has its place for   *)
(* the whole program.                                                      *)
Life(t, uses) ==
  LET first == IF t = graph.input THEN 0 ELSE producer[t]
      own == IF t = graph.input THEN Len(ops) ELSE uses[t]
      ends == {first, own} \cup {uses[a] : a \in {b \in Values : alias_of[b] # NoTensor
                                                                /\ Root(b) = t}}
  IN  [first |-> first, last |-> CHOOSE x \in ends : \A y \in ends : y <= x]

Candidates(uses) ==
  {[value |-> t, alt |-> 0, bytes |-> Bytes(t),
    first |-> Life(t, uses).first, last |-> Life(t, uses).last] :
     t \in {u \in Values : /\ ~IsConst(u) /\ alias_of[u] = NoTensor
                           /\ u = graph.input \/ producer[u] >= 0}}

EndFirstPass ==
  /\ pc = "lower" /\ pass = 1 /\ node > Limit
  /\ MarkPairs
  /\ PlanStart(Candidates(ExtendActivation(last_use')))
  /\ pc' = "plan"
  /\ UNCHANGED <<graph, strategy, pass, node, producer, alias_of, offset, running>>

PlanStep ==
  /\ pc = "plan" /\ (Bump \/ Place)
  /\ UNCHANGED <<graph, strategy, pc, lowering, running>>

(* The second pass starts from an empty table; what the first one learnt   *)
(* about the values stays.                                                 *)
BeginSecondPass ==
  /\ pc = "plan" /\ candidates = {}
  /\ offset' = [t \in Values |-> OffsetOf(Root(t), 0)]
  /\ ops' = <<>> /\ node' = 1 /\ pass' = 2 /\ pc' = "lower"
  /\ last_use' = ExtendActivation(last_use)
  /\ UNCHANGED <<graph, strategy, producer, alias_of, plan, running>>

EndSecondPass ==
  /\ pc = "lower" /\ pass = 2 /\ node > Limit
  /\ MarkPairs
  /\ pc' = IF arena_bytes = 0 THEN "rejected" ELSE "ready"
  /\ UNCHANGED <<graph, strategy, pass, node, producer, alias_of, offset, plan, running>>

-----------------------------------------------------------------------------
(* The run.  An operand is intact when the arena still holds its value at  *)
(* the offset the operation reads.                                         *)

Holds(mem, o) == {m \in mem : m.value = Root(o.value) /\ m.offset = o.offset}
Intact(mem, o) == Holds(mem, o) # {}
OrdersOf(mem, op) == {m.order : m \in UNION {Holds(mem, o) : o \in op.ins}}
InOrder(mem, op) ==
  /\ \A o \in op.ins : \A m \in Holds(mem, o) : o.want \in {m.order, "same"}
  /\ op.out.order = "same" => Cardinality(OrdersOf(mem, op)) <= 1
Good(mem, op) == (\A o \in op.ins : Intact(mem, o)) /\ InOrder(mem, op)

(* The nodes behind an operation's result: its own, and the reshapes that  *)
(* are other names for it.                                                 *)
OwnResults(op) == {OutOf(n) : n \in op.begin .. LastNode(op)}
Names(S) == S \cup {t \in Values : alias_of[t] # NoTensor /\ Root(t) \in S}

Order(mem, op) ==
  IF op.out.order = "same" THEN CHOOSE o \in OrdersOf(mem, op) : TRUE ELSE op.out.order

(* Whatever overlapped the result's place is gone.                         *)
Write(mem, op, good) ==
  {m \in mem : ~Overlap(m.offset, Bytes(m.value), op.out.offset, Bytes(op.out.value))} \cup
  (IF good THEN {[value |-> op.out.value, offset |-> op.out.offset, order |-> Order(mem, op)]}
           ELSE {})

(* The caller writes the input; recognition maps arrive in NHWC order.     *)
Begin ==
  /\ pc = "ready" /\ pc' = "run"
  /\ at' = 1 /\ computed' = {graph.input}
  /\ memory' = {[value |-> graph.input, offset |-> offset[graph.input], order |-> MapOrder]}
  /\ UNCHANGED <<graph, strategy, lowering, plan>>

(* execute_op, a case per family of kinds.  A kernel reads its operands     *)
(* while it writes its result, so they must be there still when the result *)
(* is.                                                                     *)
Execute(op) ==
  LET written == Write(memory, op, Good(memory, op))
      good == Good(memory, op) /\ Good(written, op)
  IN  /\ memory' = written
      /\ computed' = IF good THEN computed \cup Names({graph.input} \cup OwnResults(op))
                             ELSE computed
Dispatched(kinds) == pc = "run" /\ at <= Len(ops) /\ ~ops[at].ffn /\ ops[at].kind \in kinds
Perform(kinds) ==
  /\ Dispatched(kinds)
  /\ Execute(ops[at])
  /\ at' = at + 1
  /\ UNCHANGED <<graph, strategy, pc, lowering, plan>>

RunPointwise == Perform({"pointwise"})
RunSpatial == Perform({"stem", "dense", "depthwise"})
RunBinary == Perform({"binary"})
RunUnary == Perform({"bn", "unary", "gelu"})
RunMap == Perform({"reduce", "pool", "concat", "slice"})
RunMatrix == Perform({"repack", "transpose", "matmul"})
RunOp == RunPointwise \/ RunSpatial \/ RunBinary \/ RunUnary \/ RunMap \/ RunMatrix

(* lw_x64_rec_instance_run_ffn_pair runs the two operations tile by tile:  *)
(* the first one's input and the second one's residual are still read when *)
(* both results have been written.  It refuses a pair whose places         *)
(* overlap.                                                                *)
ExtentOf(o) == [from |-> o.offset, bytes |-> Bytes(o.value)]
PairAccepted(a, b) ==
  LET results == {ExtentOf(a.out), ExtentOf(b.out)}
      reads == {ExtentOf(o) : o \in a.ins \cup {r \in b.ins : r.value # a.out.value}}
  IN  /\ Cardinality(results) = 2
      /\ \A x \in results \cup reads : x.from + x.bytes <= arena_bytes
      /\ \A x \in results : \A y \in (results \ {x}) \cup reads :
           ~Overlap(x.from, x.bytes, y.from, y.bytes)

RunPair ==
  /\ pc = "run" /\ at <= Len(ops) /\ ops[at].ffn /\ PairAccepted(ops[at], ops[at + 1])
  /\ LET a == ops[at]
         b == ops[at + 1]
         expanded == Write(memory, a, Good(memory, a))
         projected == Write(expanded, b, Good(expanded, b))
         good == /\ Good(memory, a) /\ Good(projected, a)
                 /\ Good(expanded, b) /\ Good(projected, b)
     IN  /\ memory' = projected
         /\ computed' = IF good THEN computed \cup Names({graph.input} \cup OwnResults(a)
                                                          \cup OwnResults(b))
                                ELSE computed
  /\ at' = at + 2
  /\ UNCHANGED <<graph, strategy, pc, lowering, plan>>

(* A kernel or a refused pair fails the run.                               *)
RunFails ==
  /\ pc = "run" /\ at <= Len(ops)
  /\ \/ ops[at].kind \in {"stem", "dense", "depthwise"}
     \/ ops[at].ffn /\ ~PairAccepted(ops[at], ops[at + 1])
  /\ pc' = "ready" /\ at' = 1 /\ memory' = {} /\ computed' = {}
  /\ UNCHANGED <<graph, strategy, lowering, plan>>

(* The tail computes the three elided nodes from the activation.           *)
Finish ==
  /\ pc = "run" /\ at > Len(ops)
  /\ computed' = computed \cup Names({graph.input}) \cup
       IF CtcTail /\ Intact(memory, [value |-> Activation, offset |-> offset[Activation]])
         THEN {OutOf(n) : n \in Limit + 1 .. Len(graph.nodes)}
         ELSE {}
  /\ pc' = "tail"
  /\ UNCHANGED <<graph, strategy, lowering, plan, at, memory>>

Return ==
  /\ pc = "tail" /\ pc' = "ready"
  /\ UNCHANGED <<graph, strategy, lowering, plan, running>>

-----------------------------------------------------------------------------
Init ==
  /\ graph \in Graphs /\ strategy \in Strategies
  /\ pc = "lower" /\ pass = 1 /\ node = 1 /\ ops = <<>>
  /\ producer = [t \in Values |-> -1] /\ last_use = [t \in Values |-> -1]
  /\ alias_of = [t \in Values |-> NoTensor] /\ offset = [t \in Values |-> 0]
  /\ PlanInit
  /\ at = 1 /\ memory = {} /\ computed = {}

Lower == LowerGelu \/ LowerRepack \/ LowerAlias \/ LowerNode \/ LowerFails
Compile == Lower \/ EndFirstPass \/ PlanStep \/ BeginSecondPass \/ EndSecondPass
Run == Begin \/ RunOp \/ RunPair \/ RunFails \/ Finish \/ Return
Next == Compile \/ Run
Spec == Init /\ [][Next]_vars

-----------------------------------------------------------------------------
(* The order in which a tensor lies in memory when no node is fused with   *)
(* another.                                                                *)
Alone(n) == IF IsReshape(n) THEN Repack(n) ELSE CompileNode(n)
Keeps(n) ==
  \/ Renames(n)
  \/ Op(n) \in {"relu", "erf", "softmax"}
  \/ Op(n) \in {"add", "mul", "div"} /\ ~Mixed(n)
OrderSource(n) ==
  IF Len(graph.nodes[n].ins) = 2 /\ IsConst(In(n, 1)) THEN In(n, 2) ELSE In(n, 1)
StoredOrder(t) ==
  LET order[n \in 0 .. Len(graph.nodes)] ==
        IF n = 0 THEN MapOrder
        ELSE IF Keeps(n) THEN order[Producer(graph, OrderSource(n))]
        ELSE Alone(n).out.order
  IN  order[Producer(graph, t)]

(* A run that succeeds has computed the graph's outputs, every value from  *)
(* operands that were its producer's: no lifetime the first pass found is  *)
(* too short, no chain was fused whose temporaries somebody else reads, no *)
(* alias outlives its root (lower_ops, plan_arena_offsets, run_op).        *)
Eval == INSTANCE GraphEvaluation WITH
          graph <- graph,
          evaluated <- computed,
          outcome <- IF pc \in {"run", "tail"} THEN "running"
                     ELSE IF computed = {} THEN "none" ELSE "ok"
EvalSpec == Eval!Spec

(* A condition on the graph, under which the property below holds: what    *)
(* the compiler decides about memory orders, looking at the graph alone,   *)
(* is consistent.  Were every node an operation of its own, each would     *)
(* find its operands in the order its kernel reads (compile_node,          *)
(* lower_ops), elementwise ones all of them in the same; and the residual  *)
(* that a convolution takes along is in the order of its own result        *)
(* (fold_conv_epilogue does not ask).  The code compiles other graphs too. *)
OrdersAgree ==
  \A n \in 1 .. Limit :
    /\ Renames(n) \/ \A o \in Alone(n).ins :
         ~IsConst(o.value) /\ o.want \in {StoredOrder(o.value), "same"}
    /\ Keeps(n) =>
         /\ ~IsConst(OrderSource(n))
         /\ \A t \in Ins(graph, n) : IsConst(t) \/ StoredOrder(t) = StoredOrder(OrderSource(n))
    /\ Op(n) = "conv" => Fold(n).residual = NoTensor \/ StoredOrder(Fold(n).residual) = MapOrder

(* An operation finds each operand in the memory order its kernel reads,   *)
(* and an elementwise one finds all of them in the same (compile_node and  *)
(* rec_value_is_nhwc_physical, which decide it from the graph alone).      *)
OrdersMatch ==
  pc = "run" /\ at <= Len(ops) => InOrder(memory, ops[at])

(* lw_x64_rec_instance_run_ffn_pair refuses no pair that mark_ffn_pairs    *)
(* made: what the planner did with the stretched lifetime is what the      *)
(* executor demands.                                                       *)
PairsAccepted ==
  \A i \in DOMAIN ops :
    ops[i].ffn /\ pc \in {"ready", "run"} => PairAccepted(ops[i], ops[i + 1])

=============================================================================
