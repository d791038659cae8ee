----------------------------- MODULE DetProgram -----------------------------
(***************************************************************************)
(* The compiled detection program: a graph lowered in two passes to        *)
(* physical operations over one arena (x64_det_backend_compile.c), and     *)
(* their run (x64_det_backend_execute.c).                                  *)
(*                                                                         *)
(* Unlike recognition, every node has a layout of its own, the layout      *)
(* planner's where the backend can lower it.  A value lives in its         *)
(* producer's layout in its primary slot; the first reader in the other    *)
(* layout puts a conversion in front of itself, which fills the value's    *)
(* alternate slot, and every later reader in that layout shares it.  A     *)
(* convolution takes a bias, a residual and an activation along.           *)
(*                                                                         *)
(* As in RecProgram, an operation is asked whether it finds its operands   *)
(* where it reads, in the layout its kernel assumes.  A constant added to  *)
(* a convolution's result has one float per channel, and the operators are *)
(* those of the layout planner.  Graphs in which a reshape has to do with  *)
(* an NHWC map, or an output that is also read, do not occur among the     *)
(* detection models: the lowering supports neither (RenamesNchw).          *)
(***************************************************************************)
EXTENDS LayoutPlanner, ArenaPlan

CONSTANTS
  Graphs,      \* the graphs to compile
  Strategies,  \* {"NHWC"}, {"NCHW"} or both: lw_x64_det_compile_strategy
  Wasm         \* {FALSE}, {TRUE} or both: the WebAssembly build

Lowerable ==
  Binary \cup {"conv", "up", "relu", "erf", "hard_sigmoid", "bn", "reduce", "pool",
               "resize", "concat"}

(* plan_effective_layouts: the planner's NHWC nodes that the backend can   *)
(* lower; a matched GELU has the layout of its first node throughout.      *)
ChainAround(g, n) == {k \in Nodes(g) : k <= n /\ n <= k + 4 /\ MatchesGelu(g, k)}
NhwcLayouts(g) ==
  LET planned == LayoutPlan(g, TRUE).layout
      own == [n \in Nodes(g) |->
                IF planned[n] = "NHWC" /\ g.nodes[n].op \in Lowerable THEN "NHWC" ELSE "NCHW"]
  IN  [n \in Nodes(g) |->
         IF ChainAround(g, n) # {} THEN own[CHOOSE k \in ChainAround(g, n) : TRUE] ELSE own[n]]

(* A reshape gives an NCHW value a name that is only read in NCHW.         *)
RenamesNchw(g) ==
  LET layouts == NhwcLayouts(g)
  IN  \A n \in Nodes(g) : g.nodes[n].op = "reshape" =>
        LET t == g.nodes[n].ins[1]
        IN  /\ t \notin g.const
            /\ t = g.input => ~InputCanStartNhwc(g)
            /\ Producer(g, t) # 0 => layouts[Producer(g, t)] = "NCHW"
            /\ IsMap(g, Out(g, n)) => \A k \in Readers(g, Out(g, n)) : layouts[k] = "NCHW"

ASSUME GraphsWellFormed == \A g \in Graphs : WellFormed(g) /\ WellTyped(g)
ASSUME OperandsAssumption ==
  \A g \in Graphs : /\ g.input \notin g.const
                    /\ \A n \in Nodes(g) : g.nodes[n].op \in Binary => Len(g.nodes[n].ins) = 2
ASSUME RenamesAssumption == \A g \in Graphs : RenamesNchw(g)
ASSUME StrategyAssumption == Strategies \subseteq {"NHWC", "NCHW"}
ASSUME WasmAssumption == Wasm \subseteq BOOLEAN

VARIABLES
  graph,
  strategy,     \* program->backend_layout
  wasm,         \* whether the input is written straight into the arena
  pc,           \* "layouts", "lower", "plan", "ready", "run", "done", "rejected"
  effective,    \* program->effective_node_layout
  pass,         \* the pass of lower_ops, 1 or 2
  node,         \* the semantic node it is at
  exported,     \* the graph outputs that have been looked at
  ops,          \* program->ops
  producer,     \* per value: the operation that writes its primary slot, -1: none
  last_use,     \* per value: the last operation that reads it, -1: none
  alt_producer, \* the same for its alternate slot
  alt_last_use,
  alias_of,     \* per value: what it is another name for, NoTensor: nothing
  offset,       \* per value: the place of its primary slot
  alt_offset,   \* per value: the place of its alternate slot
  at,           \* the operation the run executes next
  memory,       \* what the arena holds: a set of [value, offset, layout]
  computed      \* the values this run has computed

model == <<graph, strategy, wasm>>
uses == <<producer, last_use, alt_producer, alt_last_use>>
places == <<alias_of, offset, alt_offset>>
lowering == <<effective, pass, node, exported, ops, uses, places>>
running == <<at, memory, computed>>
vars == <<model, pc, lowering, plan, running>>

NoTensor == 0
Op(n) == graph.nodes[n].op
In(n, s) == graph.nodes[n].ins[s]
OutOf(n) == Out(graph, n)
Bytes(t) == graph.bytes[t]
IsConst(t) == t \in graph.const
Values == Tensors(graph)
LastNode == Len(graph.nodes)
Physical == Len(ops)   \* operations are numbered from 0, as in the code
Capacity == LastNode + Cardinality(Values) + 16
Later(x, y) == IF x > y THEN x ELSE y

(* resolve_alias_root                                                      *)
Root(t) ==
  LET root[u \in Values] == IF alias_of[u] = NoTensor THEN u ELSE root[alias_of[u]]
  IN  root[t]

-----------------------------------------------------------------------------
(* A node the planner has in NHWC and the backend cannot lower there is    *)
(* refused, but for the two that leave an NHWC island.                     *)
IslandExits == {"sigmoid", "sqrt"}
PlanLayouts ==
  LET planned == LayoutPlan(graph, TRUE).layout
      diverges == \E n \in Nodes(graph) : planned[n] = "NHWC"
                                          /\ Op(n) \notin Lowerable \cup IslandExits
  IN  /\ pc = "layouts"
      /\ effective' = IF strategy = "NCHW" THEN [n \in Nodes(graph) |-> "NCHW"]
                      ELSE NhwcLayouts(graph)
      /\ pc' = IF strategy = "NHWC" /\ diverges THEN "rejected" ELSE "lower"
      /\ UNCHANGED <<model, pass, node, exported, ops, uses, places, plan, running>>

(* fill_value: the layout of a value's primary slot.                       *)
DirectInput == wasm /\ InputCanStartNhwc(graph)
Layout(t) ==
  IF ~Rank4(graph, t) THEN "NCHW"
  ELSE IF t = graph.input THEN IF DirectInput THEN "NHWC" ELSE "NCHW"
  ELSE IF Producer(graph, t) = 0 THEN "NCHW" ELSE effective[Producer(graph, t)]
OtherLayout(l) == IF l = "NHWC" THEN "NCHW" ELSE "NHWC"

(* det_slot_offset: where a node of this layout reads t.                   *)
SlotOffset(t, l) ==
  IF Layout(t) = l \/ alt_producer[t] < 0 THEN offset[t] ELSE alt_offset[t]

(* An operand is right when its place holds the value in the layout that   *)
(* the kernel reads; the layout of vectors, planes and sequences does not  *)
(* matter.                                                                 *)
Want(t, l) ==
  IF IsMap(graph, t) THEN l ELSE IF IsMap(graph, Root(t)) THEN "NCHW" ELSE "any"
Operand(t, l) == [value |-> t, offset |-> SlotOffset(t, l), want |-> Want(t, l)]
Operands(n) == {Operand(t, effective[n]) : t \in {u \in Ins(graph, n) : ~IsConst(u)}}
Operation(kind, begin, count, ins, out, alt) ==
  [kind |-> kind, begin |-> begin, count |-> count, ins |-> ins,
   out |-> [value |-> out, alt |-> alt,
            offset |-> IF alt = 1 THEN alt_offset[out] ELSE offset[out],
            layout |-> IF alt = 1 THEN OtherLayout(Layout(out)) ELSE Layout(out)]]

(* compile_conv, with what the epilogue reads and writes.                  *)
ConvOperation(n, span, residual, out) ==
  Operation("conv", n, span, Operands(n) \cup residual, out, 0)

-----------------------------------------------------------------------------
(* materialize_input_converts, one conversion per step.                    *)
AtGelu == node <= LastNode /\ GeluAt(graph, node)
Span == IF AtGelu THEN node .. node + 4 ELSE {node}
Renames(n) == Op(n) = "reshape"

(* Mutation: the graph input is taken to have come in NHWC. *)
NeedsConvertNotInput(n, t) ==
  LET r == Root(t)
  IN  /\ ~IsConst(r) /\ r # graph.input /\ Layout(r) # effective[n]
      /\ IsMap(graph, t) /\ alt_producer[r] < 0

NeedsConvert(n, t) ==
  LET r == Root(t)
  IN  /\ ~IsConst(r) /\ Layout(r) # effective[n]
      /\ IsMap(graph, t) /\ alt_producer[r] < 0
Pending == {u \in UNION {{n} \X Slots(graph, n) : n \in Span} : NeedsConvert(u[1], In(u[1], u[2]))}
FirstPending ==
  CHOOSE u \in Pending : \A v \in Pending : u[1] < v[1] \/ (u[1] = v[1] /\ u[2] <= v[2])

Convert(r, n) ==
  /\ ops' = Append(ops, Operation("convert", n, 0,
               {[value |-> r, offset |-> offset[r], want |-> Layout(r)]}, r, 1))
  /\ alt_producer' = [alt_producer EXCEPT ![r] = Physical]
  /\ last_use' = [last_use EXCEPT ![r] = Later(@, Physical)]
  /\ UNCHANGED <<producer, alt_last_use>>

LowerConvert ==
  /\ pc = "lower" /\ node <= LastNode /\ Physical < Capacity
  /\ ~Renames(node) /\ Pending # {}
  /\ LET first == FirstPending IN Convert(Root(In(first[1], first[2])), first[1])
  /\ UNCHANGED <<model, pc, effective, pass, node, exported, places, plan, running>>

(* update_input_uses                                                       *)
ReadsAlternate(n, t) ==
  Layout(Root(t)) # effective[n] /\ alt_producer[Root(t)] >= 0 /\ IsMap(graph, t)
Inputs(N) == UNION {{n} \X {t \in Ins(graph, n) : ~IsConst(Root(t))} : n \in N}

AlternateReads(N) == {Root(u[2]) : u \in {v \in Inputs(N) : ReadsAlternate(v[1], v[2])}}
PrimaryReads(N) == {Root(u[2]) : u \in {v \in Inputs(N) : ~ReadsAlternate(v[1], v[2])}}
UpdateUses(primary, alternate) ==
  /\ last_use' = [r \in Values |->
       IF r \in primary THEN Later(last_use[r], Physical) ELSE last_use[r]]
  /\ alt_last_use' = [r \in Values |->
       IF r \in alternate THEN Later(alt_last_use[r], Physical) ELSE alt_last_use[r]]

-----------------------------------------------------------------------------
(* The epilogue of an NHWC pointwise or dense convolution at node n: a     *)
(* bias and a residual, in either order, then a Relu or a GELU.            *)
OtherOperand(n, t) ==
  IF In(n, 1) = t THEN In(n, 2) ELSE IF In(n, 2) = t THEN In(n, 1) ELSE NoTensor
AddsTo(n, t) ==
  /\ n <= LastNode /\ Op(n) = "add" /\ effective[n] = "NHWC"
  /\ UseCount(graph, t) = 1
  /\ OtherOperand(n, t) # NoTensor /\ Bytes(OutOf(n)) = Bytes(t)

FoldAdd(n, f) ==
  LET add == n + f.span
      other == OtherOperand(add, f.out)
      grown == [f EXCEPT !.span = @ + 1, !.out = OutOf(add)]
  IN  IF ~AddsTo(add, f.out) THEN f
      ELSE IF IsConst(Root(other))
        THEN IF f.bias \/ Bytes(Root(other)) # 1 THEN f ELSE [grown EXCEPT !.bias = TRUE]
      ELSE IF f.residual # NoTensor \/ Bytes(Root(other)) # Bytes(f.out)
              \/ Layout(Root(other)) # "NHWC"
        THEN f ELSE [grown EXCEPT !.residual = Root(other)]

(* Mutation: the sum may have readers beside the activation. *)
FoldActivationShared(n, f) ==
  LET next == n + f.span
  IN  IF next <= LastNode /\ Op(next) = "relu" /\ In(next, 1) = f.out
        THEN [f EXCEPT !.span = @ + 1, !.out = OutOf(next)]
        ELSE f

FoldActivation(n, f) ==
  LET next == n + f.span
  IN  IF next <= LastNode /\ Op(next) = "relu" /\ In(next, 1) = f.out
         /\ UseCount(graph, f.out) = 1
        THEN [f EXCEPT !.span = @ + 1, !.out = OutOf(next)]
      ELSE IF next + 4 <= LastNode /\ GeluAt(graph, next)
              /\ ChainSource(graph, next) = f.out /\ ConsumedWithin(graph, f.out, next, 5)
        THEN [f EXCEPT !.span = @ + 5, !.out = OutOf(next + 4)]
      ELSE f

Folds(n) == DenseConv(graph, n) /\ Layout(OutOf(n)) = "NHWC"
Fold(n) ==
  LET bare == [span |-> 1, out |-> OutOf(n), bias |-> FALSE, residual |-> NoTensor]
  IN  IF Folds(n) THEN FoldActivation(n, FoldAdd(n, FoldAdd(n, bare))) ELSE bare

-----------------------------------------------------------------------------
(* lower_ops, one step per node or chain once its conversions are there.   *)
LowerGelu ==
  /\ pc = "lower" /\ AtGelu /\ Pending = {} /\ Physical < Capacity
  /\ ops' = Append(ops, Operation("gelu", node, 5,
               {Operand(ChainSource(graph, node), effective[node])}, OutOf(node + 4), 0))
  /\ producer' = [producer EXCEPT ![OutOf(node + 4)] = Physical]
  /\ UpdateUses(PrimaryReads(Span), AlternateReads(Span))
  /\ node' = node + 5
  /\ UNCHANGED <<model, pc, effective, pass, exported, alt_producer, places, plan, running>>

LowerAlias ==
  /\ pc = "lower" /\ node <= LastNode /\ Renames(node)
  /\ alias_of' = [alias_of EXCEPT ![OutOf(node)] = In(node, 1)]
  /\ offset' = [offset EXCEPT ![OutOf(node)] = offset[In(node, 1)]]
  /\ producer' = [producer EXCEPT ![OutOf(node)] = node - 1]
  /\ node' = node + 1
  /\ UNCHANGED <<model, pc, effective, pass, exported, ops, last_use, alt_producer,
                 alt_last_use, alt_offset, plan, running>>

Supported(n) ==
  /\ Op(n) \in Lowerable \cup {"sigmoid"}
  /\ Op(n) = "up" => graph.nodes[n].form = "double"
AtNode == pc = "lower" /\ node <= LastNode /\ ~AtGelu /\ ~Renames(node) /\ Pending = {}

LowerNode ==
  /\ AtNode /\ ~Folds(node) /\ Supported(node) /\ Physical < Capacity
  /\ ops' = Append(ops, IF Op(node) = "conv" THEN ConvOperation(node, 1, {}, OutOf(node))
                        ELSE Operation(Op(node), node, 1, Operands(node), OutOf(node), 0))
  /\ producer' = [producer EXCEPT ![OutOf(node)] = Physical]
  /\ UpdateUses(PrimaryReads({node}), AlternateReads({node}))
  /\ node' = node + 1
  /\ UNCHANGED <<model, pc, effective, pass, exported, alt_producer, places, plan, running>>

(* The tensors between the convolution and the last node of its epilogue   *)
(* never exist; the residual lives until the convolution.                  *)
LowerConv ==
  /\ AtNode /\ Folds(node) /\ Physical < Capacity
  /\ LET f == Fold(node)
         between == {OutOf(n) : n \in node .. node + f.span - 2}
         residual == {f.residual} \ {NoTensor}
     IN  /\ ops' = Append(ops, ConvOperation(node, f.span,
                      {Operand(t, "NHWC") : t \in residual}, f.out))
         /\ producer' = [t \in Values |-> CASE t = f.out -> Physical
                                            [] t \in between -> -1
                                            [] OTHER -> producer[t]]
         /\ UpdateUses(PrimaryReads({node}) \cup residual, AlternateReads({node}))
         /\ node' = node + f.span
  /\ UNCHANGED <<model, pc, effective, pass, exported, alt_producer, places, plan, running>>

LowerFails ==
  /\ AtNode /\ ~Supported(node)
  /\ pc' = "rejected"
  /\ UNCHANGED <<model, lowering, plan, running>>

(* The caller reads the outputs in NCHW: a map that is not gets a          *)
(* conversion at the end.                                                  *)
LowerOutput ==
  /\ pc = "lower" /\ node > LastNode
  /\ \E t \in graph.outputs \ exported :
       /\ \A u \in graph.outputs \ exported : t <= u
       /\ exported' = exported \cup {t}
       /\ IF t \notin graph.neutral /\ Layout(t) = "NHWC"
            THEN Physical < Capacity /\ Convert(t, Producer(graph, t))
            ELSE UNCHANGED <<ops, uses>>
  /\ UNCHANGED <<model, pc, effective, pass, node, places, plan, running>>

Lowered == pc = "lower" /\ node > LastNode /\ exported = graph.outputs

-----------------------------------------------------------------------------
(* plan_arena_offsets: the primary slot of a value lives from its producer *)
(* to its last reader or that of any of its aliases, the alternate slot    *)
(* from its conversion to its last reader.  The caller rewrites the graph  *)
(* input between runs, so it has its place for the whole program.          *)
LastOf(S) == CHOOSE x \in S : \A y \in S : y <= x
Primary(t) ==
  LET isInput == t = graph.input
      first == IF isInput THEN 0 ELSE producer[t]
      own == IF isInput THEN Len(ops) ELSE last_use[t]
  IN  [value |-> t, alt |-> 0, bytes |-> Bytes(t), first |-> first,
       last |-> LastOf({first, own} \cup
                  {last_use[a] : a \in {b \in Values : alias_of[b] # NoTensor /\ Root(b) = t}})]
Alternate(t) ==
  [value |-> t, alt |-> 1, bytes |-> Bytes(t), first |-> alt_producer[t],
   last |-> Later(alt_last_use[t], alt_producer[t])]
Stored == {t \in Values : /\ ~IsConst(t) /\ alias_of[t] = NoTensor
                          /\ t = graph.input \/ producer[t] >= 0}
Candidates ==
  {Primary(t) : t \in Stored} \cup {Alternate(t) : t \in {u \in Stored : alt_producer[u] >= 0}}

EndFirstPass ==
  /\ Lowered /\ pass = 1
  /\ PlanStart(Candidates)
  /\ pc' = "plan"
  /\ UNCHANGED <<model, lowering, running>>

PlanStep ==
  /\ pc = "plan" /\ (Bump \/ Place)
  /\ UNCHANGED <<model, pc, lowering, running>>

(* reset_lowering forgets what the first pass learnt about the values,     *)
(* their places excepted.                                                  *)
Unused == [t \in Values |-> -1]

ForgetAlternates == Unused
BeginSecondPass ==
  /\ pc = "plan" /\ candidates = {}
  /\ offset' = [t \in Values |-> OffsetOf(Root(t), 0)]
  /\ alt_offset' = [t \in Values |-> OffsetOf(Root(t), 1)]
  /\ ops' = <<>> /\ node' = 1 /\ exported' = {} /\ pass' = 2 /\ pc' = "lower"
  /\ producer' = Unused /\ last_use' = Unused
  /\ alt_producer' = ForgetAlternates /\ alt_last_use' = Unused
  /\ UNCHANGED <<model, effective, alias_of, plan, running>>

EndSecondPass ==
  /\ Lowered /\ pass = 2
  /\ pc' = IF arena_bytes = 0 THEN "rejected" ELSE "ready"
  /\ UNCHANGED <<model, lowering, plan, running>>

-----------------------------------------------------------------------------
(* The run.                                                                *)
Holds(mem, o) == {m \in mem : m.value = Root(o.value) /\ m.offset = o.offset}
RightLayout(mem, o) == \A m \in Holds(mem, o) : o.want \in {m.layout, "any"}
Good(mem, op) == \A o \in op.ins : Holds(mem, o) # {} /\ RightLayout(mem, o)

Results(op) == {OutOf(n) : n \in op.begin .. op.begin + op.count - 1}
Names(S) == S \cup {t \in Values : alias_of[t] # NoTensor /\ Root(t) \in S}

(* Whatever overlapped the result's place is gone.                         *)
Write(mem, op, good) ==
  {m \in mem : ~Overlap(m.offset, Bytes(m.value), op.out.offset, Bytes(op.out.value))} \cup
  (IF good THEN {[value |-> op.out.value, offset |-> op.out.offset, layout |-> op.out.layout]}
           ELSE {})

(* The detector copies its NCHW input into the arena, or the WebAssembly   *)
(* build preprocesses straight into it, in NHWC where the plan asks for it.*)
Begin ==
  /\ pc \in {"ready", "done"} /\ pc' = "run"
  /\ at' = 1 /\ computed' = {graph.input}
  /\ memory' = {[value |-> graph.input, offset |-> offset[graph.input],
                 layout |-> IF DirectInput THEN "NHWC" ELSE "NCHW"]}
  /\ UNCHANGED <<model, lowering, plan>>

(* execute_op, a case per family of kinds.  A kernel reads its operands     *)
(* while it writes its result, so they must be there still when the result *)
(* is.                                                                     *)
Perform(kinds, layouts) ==
  /\ pc = "run" /\ at <= Len(ops)
  /\ ops[at].kind \in kinds /\ ops[at].out.layout \in layouts
  /\ LET op == ops[at]
         written == Write(memory, op, Good(memory, op))
     IN  /\ memory' = written
         /\ computed' = IF Good(memory, op) /\ Good(written, op)
                          THEN computed \cup Names({graph.input} \cup Results(op))
                          ELSE computed
  /\ at' = at + 1
  /\ UNCHANGED <<model, pc, lowering, plan>>

Both == {"NHWC", "NCHW"}
RunConvNchw == Perform({"conv"}, {"NCHW"})
RunConvNhwc == Perform({"conv"}, {"NHWC"})
RunConvert == Perform({"convert"}, Both)
RunTransposed == Perform({"up"}, Both)
RunPlanes == Perform({"resize", "sigmoid"}, Both)
RunConcat == Perform({"concat"}, Both)
RunAffine == Perform({"bn"}, Both)
RunBinary == Perform(Binary, Both)
RunUnary == Perform({"relu", "erf", "hard_sigmoid", "gelu"}, Both)
RunReduce == Perform({"reduce"}, Both)
RunPool == Perform({"pool"}, Both)
RunOp == \/ RunConvNchw \/ RunConvNhwc \/ RunConvert \/ RunTransposed \/ RunPlanes
         \/ RunConcat \/ RunAffine \/ RunBinary \/ RunUnary \/ RunReduce \/ RunPool

(* The pools and the transposed convolutions can fail.                     *)
RunFails ==
  /\ pc = "run" /\ at <= Len(ops) /\ ops[at].kind \in {"pool", "up"}
  /\ pc' = "ready" /\ at' = 1 /\ memory' = {} /\ computed' = {}
  /\ UNCHANGED <<model, lowering, plan>>

(* lw_x64_det_instance_run_profiled_ex copies the output from the          *)
(* alternate slot where there is one and the primary slot is not NCHW.     *)
ReadBack(t) ==
  [value |-> t, want |-> IF IsMap(graph, t) THEN "NCHW" ELSE "any",
   offset |-> IF Layout(t) = "NCHW" \/ alt_producer[t] < 0 THEN offset[t] ELSE alt_offset[t]]
Delivered(t) == Holds(memory, ReadBack(t)) # {} /\ RightLayout(memory, ReadBack(t))
Finish ==
  /\ pc = "run" /\ at > Len(ops)
  /\ computed' = {t \in computed : t \in graph.outputs => Delivered(t)}
  /\ pc' = "done"
  /\ UNCHANGED <<model, lowering, plan, at, memory>>

-----------------------------------------------------------------------------
Init ==
  /\ graph \in Graphs /\ strategy \in Strategies /\ wasm \in Wasm
  /\ wasm => strategy = "NHWC"
  /\ pc = "layouts" /\ effective = [n \in Nodes(graph) |-> "NCHW"]
  /\ pass = 1 /\ node = 1 /\ exported = {} /\ ops = <<>>
  /\ producer = Unused /\ last_use = Unused /\ alt_producer = Unused /\ alt_last_use = Unused
  /\ alias_of = [t \in Values |-> NoTensor]
  /\ offset = [t \in Values |-> 0] /\ alt_offset = [t \in Values |-> 0]
  /\ PlanInit
  /\ at = 1 /\ memory = {} /\ computed = {}

Lower == LowerConvert \/ LowerGelu \/ LowerAlias \/ LowerNode \/ LowerConv \/ LowerFails \/ LowerOutput
Compile == PlanLayouts \/ Lower \/ EndFirstPass \/ PlanStep \/ BeginSecondPass \/ EndSecondPass
Run == Begin \/ RunOp \/ RunFails \/ Finish
Next == Compile \/ Run
Spec == Init /\ [][Next]_vars

-----------------------------------------------------------------------------
(* A run that succeeds has computed the graph's outputs, every value from  *)
(* operands that were its producer's, and copies the outputs out in NCHW:  *)
(* no lifetime is too short in either slot, no fused temporary has another *)
(* reader (lower_ops, update_input_uses, plan_arena_offsets, execute_op).  *)
Eval == INSTANCE GraphEvaluation WITH
          graph <- graph,
          evaluated <- computed,
          outcome <- CASE pc = "run" -> "running" [] pc = "done" -> "ok" [] OTHER -> "none"
EvalSpec == Eval!Spec

(* No operation reads a map in the wrong layout: the conversions that      *)
(* materialize_input_converts put in front of it, and the slots            *)
(* det_slot_offset chose, are those its kernel needs.                      *)
LayoutsMatch ==
  pc = "run" /\ at <= Len(ops) => \A o \in ops[at].ins : RightLayout(memory, o)
=============================================================================
