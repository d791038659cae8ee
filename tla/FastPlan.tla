------------------------------ MODULE FastPlan ------------------------------
(***************************************************************************)
(* The fast plan of a recognition session: the session's graph with NHWC   *)
(* islands (x64_rec_fast_plan.c), and its executor, which keeps a tensor   *)
(* in up to two layouts and converts when an operator asks for the other   *)
(* one (x64_rec_fast_executor.c).                                          *)
(*                                                                         *)
(* An NCHW copy lies in the session's workspace, an NHWC copy in the       *)
(* plan's own; a neutral tensor has only the former.  The session's        *)
(* placement is WorkspacePlanner's: here any placement that separates      *)
(* tensors which live at the same node.  An operation is good when every   *)
(* tensor its nodes consume is read from a copy that is the tensor's       *)
(* current value; only then does it compute its nodes' values.             *)
(*                                                                         *)
(* A conv node has the field tail: its output channels are no multiple of  *)
(* the 16 lanes of a packed block.                                         *)
(***************************************************************************)
EXTENDS LayoutPlanner, Integers

CONSTANTS
  Graphs,       \* the sessions' graphs
  MaxFailures   \* how many allocations or foldings fail while a plan is made

Convs == {"pointwise", "dense", "depthwise"}
WithEpilogue == {"pointwise", "dense"}

ASSUME GraphsWellFormed ==
  \A g \in Graphs :
    /\ WellFormed(g) /\ WellTyped(g)
    /\ \A n \in Nodes(g) : g.nodes[n].op = "conv" => g.nodes[n].form \in Convs \cup {"other"}
ASSUME FailuresAssumption == MaxFailures \in Nat

(* What shape inference gives: a shape says how many dimensions there are  *)
(* and whether they are neutral, and a map divided by a scalar keeps its   *)
(* shape.                                                                  *)
ASSUME ShapesAssumption ==
  \A g \in Graphs :
    /\ \A t, u \in Tensors(g) :
         Same(g, t, u) => g.rank[t] = g.rank[u] /\ (t \in g.neutral <=> u \in g.neutral)
    /\ \A n \in Nodes(g) : MatchesGelu(g, n) => Same(g, ChainSource(g, n), Out(g, n))

(* A recognition graph ends in its outputs: the counts below are blind to  *)
(* an output that a node reads as well.                                    *)
ASSUME OutputsAssumption ==
  \A g \in Graphs : g.outputs # {} /\ \A t \in g.outputs : Readers(g, t) = {}

VARIABLES
  graph,
  source,     \* the plan whose packed weights this one borrows, or NoSource
  pc,         \* "compile", "place", "ready", "run", "done", "rejected"
  layouts,    \* plan->layout
  node,       \* the node fast_compile_physical_ops is at
  failures,
  ops,        \* plan->ops
  slots,      \* the NHWC workspace: [offset, bytes, last]
  place,      \* tensor -> its nhwc_offset, -1: LW_X64_FAST_OFFSET_NONE
  entry,      \* the layout the caller gives the input in
  at,         \* the operation fast_execute_backbone is at
  available,  \* tensor -> available_layouts
  copies,     \* the copies <<tensor, layout>> that hold the current value
  computed    \* the tensors this run has computed

planning == <<layouts, node, failures, ops, slots, place>>
running == <<entry, at, available, copies, computed>>
vars == <<graph, source, pc, planning, running>>

NoSource == [packed |-> {}, folded |-> {}, given |-> FALSE]
None == 0
Op(n) == graph.nodes[n].op
OutOf(n) == Out(graph, n)
NodeCount == Len(graph.nodes)
All == Tensors(graph)

(* fast_build_consumer_counts counts operands; graph outputs have no more. *)
Consumers(t) == UseCount(graph, t)
SameLayout(n, m) == layouts.layout[n] = layouts.layout[m]

-----------------------------------------------------------------------------
(* fast_prepare_*: what kind of operation a node becomes.                  *)

FastGelu(n) ==
  /\ GeluAt(graph, n)
  /\ \A k \in 0..3 : Consumers(OutOf(n + k)) = 1
  /\ \A k \in 1..4 : SameLayout(n, n + k)
  /\ Rank4(graph, OutOf(n + 4)) /\ Same(graph, ChainSource(graph, n), OutOf(n + 4))

ElementwiseKind(n) == IF Op(n) \in Unary THEN "unary" ELSE "binary"
ConvKind(n) == graph.nodes[n].form
MapKind(n) == IF Op(n) \in {"reduce", "pool", "concat", "bn"} THEN Op(n) ELSE "generic"

NhwcKind(n) ==
  CASE Op(n) \in Unary \cup Binary -> ElementwiseKind(n)
    [] Op(n) = "conv" -> ConvKind(n)
    [] OTHER -> MapKind(n)

Kind(n) ==
  IF FastGelu(n) THEN "gelu"
  ELSE IF layouts.layout[n] = "NHWC" THEN NhwcKind(n) ELSE "generic"

(* Weights come from the source plan where there is one, and only if it    *)
(* packed the same convolution.                                            *)
Packable(n) == source.given => n \in source.packed

(* fast_fuse_conv_bn: what it asks of the graph, and of the weights.       *)
TakesBn(n) ==
  LET b == n + 1
  IN  /\ b <= NodeCount /\ Op(b) = "bn"
      /\ Consumers(OutOf(n)) = 1 /\ graph.nodes[b].ins[1] = OutOf(n)
      /\ \A s \in Slots(graph, b) \ {1} : graph.nodes[b].ins[s] \in graph.const
      /\ Same(graph, OutOf(n), OutOf(b)) /\ SameLayout(n, b)

(* Mutation: borrowed weights are taken for folded ones. *)
FoldsBnUnasked(n, scalable) == TakesBn(n) /\ (~source.given => scalable)

FoldsBn(n, scalable) ==
  TakesBn(n) /\ IF source.given THEN n \in source.folded ELSE scalable

(* fast_scale_conv_weights scales whole blocks of the packed weights.      *)
ScaledBy(n) ==
  IF graph.nodes[n].form # "depthwise" /\ graph.nodes[n].tail THEN "blocks" ELSE "channels"

Other(m, t) == LET ins == graph.nodes[m].ins IN IF ins[1] = t THEN ins[2] ELSE ins[1]
TakesAdd(o, a) ==
  /\ a <= NodeCount /\ Op(a) = "add" /\ Len(graph.nodes[a].ins) = 2
  /\ o.kind \in WithEpilogue
  /\ Consumers(o.out) = 1 /\ o.out \in Ins(graph, a)
  /\ Consumers(OutOf(a)) = 1
  /\ Other(a, o.out) \notin graph.const
  /\ Same(graph, o.out, Other(a, o.out)) /\ Same(graph, o.out, OutOf(a))
  /\ SameLayout(o.begin, a)
TakesRelu(o, r) ==
  /\ r <= NodeCount /\ Op(r) = "relu" /\ Len(graph.nodes[r].ins) = 1
  /\ o.kind \in WithEpilogue
  /\ Consumers(o.out) = 1 /\ graph.nodes[r].ins[1] = o.out
  /\ Same(graph, o.out, OutOf(r))
  /\ SameLayout(o.begin, r)

Bare(n, kind) ==
  [kind |-> kind, begin |-> n, count |-> IF kind = "gelu" THEN 5 ELSE 1,
   out |-> OutOf(IF kind = "gelu" THEN n + 4 ELSE n), residual |-> None,
   bn |-> FALSE, scaled |-> "no"]
Grown(o, m) == [o EXCEPT !.count = @ + 1, !.out = OutOf(m)]

WithRelu(o) ==
  LET r == o.begin + o.count IN IF TakesRelu(o, r) THEN Grown(o, r) ELSE o

ConvOperation(n, scalable) ==
  LET bare == [Bare(n, graph.nodes[n].form) EXCEPT
                 !.scaled = IF n \in source.folded THEN ScaledBy(n) ELSE "no"]
  IN  WithRelu(
        IF FoldsBn(n, scalable)
          THEN [Grown(bare, n + 1) EXCEPT !.bn = TRUE,
                 !.scaled = IF source.given THEN @ ELSE ScaledBy(n)]
        ELSE IF TakesAdd(bare, n + 1)
          THEN [Grown(bare, n + 1) EXCEPT !.residual = Other(n + 1, bare.out)]
        ELSE bare)

Emit(o) ==
  /\ ops' = Append(ops, o) /\ node' = node + o.count
  /\ UNCHANGED <<graph, source, pc, layouts, slots, place, running>>

CompileConv ==
  /\ pc = "compile" /\ node <= NodeCount
  /\ Kind(node) \in Convs /\ Packable(node)
  /\ \/ Emit(ConvOperation(node, TRUE)) /\ UNCHANGED failures
     \/ /\ failures < MaxFailures /\ TakesBn(node)  \* no memory, or not finite
        /\ Emit(ConvOperation(node, FALSE)) /\ failures' = failures + 1

CompileOther ==
  /\ pc = "compile" /\ node <= NodeCount
  /\ Kind(node) \notin Convs
  /\ Emit(Bare(node, Kind(node))) /\ UNCHANGED failures

(* A convolution or a normalisation that could not be prepared is left to  *)
(* the session's executor.                                                 *)
CompileGeneric ==
  /\ pc = "compile" /\ node <= NodeCount
  /\ Kind(node) \in Convs \cup {"bn"}
  /\ \/ Kind(node) \in Convs /\ ~Packable(node) /\ UNCHANGED failures
     \/ /\ ~source.given \/ Kind(node) = "bn"
        /\ failures < MaxFailures /\ failures' = failures + 1
  /\ Emit(Bare(node, "generic"))

-----------------------------------------------------------------------------
(* The NHWC workspace.                                                     *)

Nodeset(o) == o.begin .. o.begin + o.count - 1
Elided == {OutOf(n) : n \in UNION {Nodeset(ops[i]) : i \in DOMAIN ops}} \
            {ops[i].out : i \in DOMAIN ops}
NeedsNhwc(t) ==
  IsMap(graph, t) /\ t \notin Elided /\ "NHWC" \in layouts.available[t]

(* The session's lifetimes, in nodes: birth_node and last_use_node.        *)
Birth(t) == Producer(graph, t)
LastUse(t) ==
  IF t \in graph.outputs THEN NodeCount + 1
  ELSE LET uses == Readers(graph, t) \cup {Birth(t)}
       IN  CHOOSE n \in uses : \A m \in uses : m <= n

PhysicalOf(n) ==
  IF n = 0 THEN 1 ELSE IF n > NodeCount THEN Len(ops)
  ELSE CHOOSE i \in DOMAIN ops : n \in Nodeset(ops[i])

(* Mutation: a fused operation's inputs die with its first node. *)
LifeSemantic(t) ==
  [first |-> PhysicalOf(Birth(t)), last |-> PhysicalOf(LastUse(t)) - 1]

Life(t) == [first |-> PhysicalOf(Birth(t)), last |-> PhysicalOf(LastUse(t))]

Waiting == {t \in All : NeedsNhwc(t) /\ place[t] = -1}
Next1(t) ==
  \A u \in Waiting : \/ Life(t).first < Life(u).first
                     \/ Life(t).first = Life(u).first /\ t <= u
FreeSlots(t) ==
  {i \in DOMAIN slots : slots[i].last < Life(t).first /\ slots[i].bytes >= graph.bytes[t]}
BestSlot(i, t) ==
  \A j \in FreeSlots(t) : \/ slots[i].bytes < slots[j].bytes
                          \/ slots[i].bytes = slots[j].bytes /\ i <= j
WorkspaceEnd ==
  IF slots = <<>> THEN 0 ELSE slots[Len(slots)].offset + slots[Len(slots)].bytes

EndCompile ==
  /\ pc = "compile" /\ node > NodeCount /\ pc' = "place"
  /\ UNCHANGED <<graph, source, planning, running>>

(* The next tensor by birth takes the free slot with the least waste, or a *)
(* new one.                                                                *)
PlaceNext ==
  /\ pc = "place"
  /\ \E t \in Waiting :
       /\ Next1(t)
       /\ \/ \E i \in FreeSlots(t) :
               /\ BestSlot(i, t)
               /\ place' = [place EXCEPT ![t] = slots[i].offset]
               /\ slots' = [slots EXCEPT ![i].last = Life(t).last]
          \/ /\ FreeSlots(t) = {}
             /\ place' = [place EXCEPT ![t] = WorkspaceEnd]
             /\ slots' = Append(slots, [offset |-> WorkspaceEnd, bytes |-> graph.bytes[t],
                                        last |-> Life(t).last])
  /\ UNCHANGED <<graph, source, pc, layouts, node, failures, ops, running>>

Overlapping(t, u) ==
  place[t] < place[u] + graph.bytes[u] /\ place[u] < place[t] + graph.bytes[t]
LiveTogether(t, u) == Life(t).first <= Life(u).last /\ Life(u).first <= Life(t).last
Valid ==
  \A t, u \in {v \in All : NeedsNhwc(v)} :
    t # u /\ LiveTogether(t, u) => ~Overlapping(t, u)

EndPlace ==
  /\ pc = "place" /\ Waiting = {}
  /\ pc' = IF Valid THEN "ready" ELSE "rejected"
  /\ UNCHANGED <<graph, source, planning, running>>

(* Memory for the plan, the workspace or the scratch area is not there.    *)
CreateFails ==
  /\ pc \in {"compile", "place"} /\ failures < MaxFailures /\ failures' = failures + 1
  /\ pc' = "rejected"
  /\ UNCHANGED <<graph, source, layouts, node, ops, slots, place, running>>

-----------------------------------------------------------------------------
(* Copies.  The two layouts of a neutral tensor are one copy.              *)

Copy(t, l) == <<t, IF t \in graph.neutral THEN "NCHW" ELSE l>>
Both == {"NCHW", "NHWC"}
Published(t, l) == IF t \in graph.neutral THEN Both ELSE {l}

InSession(t) == Birth(t) # 0
HasNhwcPlace(t) == IF t \in graph.neutral THEN InSession(t) ELSE place[t] >= 0
SessionMayShare(t, u) == LastUse(t) < Birth(u) \/ LastUse(u) < Birth(t)

(* Which of these copies are left when t is written in layout l.           *)
Left(present, t, l) ==
  present \
  (IF Copy(t, l)[2] = "NHWC"
     THEN {c \in present : c[2] = "NHWC" /\ Overlapping(t, c[1])}
     ELSE {c \in present : c[2] = "NCHW" /\ InSession(c[1])
                           /\ (c[1] = t \/ SessionMayShare(t, c[1]))})

(* fast_ensure_nhwc and fast_ensure_nchw on a run's state s: whether the   *)
(* tensor can be converted, and what a conversion leaves.                  *)
Readable(s, t, l) == l \in s.available[t]
Convertible(s, t, l) ==
  /\ Rank4(graph, t) /\ HasNhwcPlace(t)
  /\ IF l = "NHWC"
       THEN "NCHW" \in s.available[t] /\ ~(t = graph.input /\ entry = "NHWC")
       ELSE InSession(t)
From(l) == IF l = "NHWC" THEN "NCHW" ELSE "NHWC"
Converted(s, t, l) ==
  [s EXCEPT !.available[t] = Both,
            !.copies = Left(@, t, l) \cup
                       (IF Copy(t, From(l)) \in @ THEN {Copy(t, l)} ELSE {})]

Ensure(s, t, l) ==
  IF ~s.ok \/ Readable(s, t, l) THEN s
  ELSE IF Convertible(s, t, l) THEN Converted(s, t, l)
  ELSE [s EXCEPT !.ok = FALSE]

-----------------------------------------------------------------------------
(* The operations.                                                         *)

(* The layout an operation reads and writes, and the tensors it asks for.  *)
GeluOnNchw(o) == o.kind = "gelu" /\ layouts.layout[o.begin] = "NCHW"
LayoutOf(o) == IF o.kind = "generic" \/ GeluOnNchw(o) THEN "NCHW" ELSE "NHWC"
Operands(o) ==
  IF o.kind = "gelu" THEN <<ChainSource(graph, o.begin)>> ELSE graph.nodes[o.begin].ins

(* Weights have no layout; the session's executor is not asked to convert  *)
(* what has no four dimensions.                                            *)
Asked(s, t, l) ==
  IF t \in graph.const \/ (l = "NCHW" /\ ~Rank4(graph, t)) THEN s ELSE Ensure(s, t, l)
AskedAll(o, start) ==
  LET state[i \in 0 .. Len(Operands(o))] ==
        IF i = 0 THEN start ELSE Asked(state[i - 1], Operands(o)[i], LayoutOf(o))
  IN  state
Ensured(o) ==
  LET start == [available |-> available, copies |-> copies, ok |-> TRUE]
      operands == AskedAll(o, start)[Len(Operands(o))]
  IN  IF GeluOnNchw(o) THEN start
      ELSE IF o.residual = None THEN operands
      ELSE Asked(operands, o.residual, LayoutOf(o))

(* The tensors the operation's nodes consume and do not produce.           *)
Consumed(o) ==
  (UNION {Ins(graph, n) : n \in Nodeset(o)})
    \ (graph.const \cup {OutOf(n) : n \in Nodeset(o)})

(* The session's executor fuses a GELU of its own, over five nodes.        *)
SpanMismatch(o) == o.kind = "generic" /\ GeluAt(graph, o.begin)
Refused(o) ==
  \/ ~Ensured(o).ok \/ SpanMismatch(o)
  \/ LayoutOf(o) = "NHWC" /\ ~HasNhwcPlace(o.out)
  \/ entry = "NHWC" /\ LayoutOf(o) = "NCHW" /\ graph.input \in Consumed(o)

(* The normalisation reaches the values through the weights: all of them   *)
(* scaled if it was folded, and none if it was not.                        *)
WeightsRight(o) == IF o.bn THEN o.scaled = "channels" ELSE o.scaled = "no"

(* An operation's operands are there while it writes its result; only the  *)
(* GELU on NCHW may lie over its input, which it reads ahead of the result *)
(* (WorkspacePlanner's FusedReadsIntact).                                  *)
Reads(o, present) == \A t \in Consumed(o) : Copy(t, LayoutOf(o)) \in present
Good(o, s) ==
  /\ WeightsRight(o)
  /\ Reads(o, s.copies)
  /\ GeluOnNchw(o) \/ Reads(o, Left(s.copies, o.out, LayoutOf(o)))

Begin ==
  /\ pc \in {"ready", "done"} /\ pc' = "run" /\ at' = 1
  /\ entry' \in {"NCHW"} \cup (layouts.available[graph.input] \cap
                               (IF InputCanStartNhwc(graph) THEN {"NHWC"} ELSE {}))
  /\ available' = [t \in All |-> IF t = graph.input THEN Published(t, entry') ELSE {}]
  /\ copies' = {Copy(graph.input, entry')}
  /\ computed' = {graph.input}
  /\ UNCHANGED <<graph, source, planning>>

(* fast_dispatch_op, a case per family of kinds.                           *)
Perform(kinds) ==
  /\ pc = "run" /\ at <= Len(ops) /\ ops[at].kind \in kinds /\ ~Refused(ops[at])
  /\ LET o == ops[at]
         s == Ensured(o)
         l == LayoutOf(o)
         left == Left(s.copies, o.out, l)
     IN  /\ available' = [s.available EXCEPT ![o.out] = Published(o.out, l)]
         /\ copies' = IF Good(o, s) THEN left \cup {Copy(o.out, l)} ELSE left
         /\ computed' = IF Good(o, s) THEN computed \cup {OutOf(n) : n \in Nodeset(o)}
                                      ELSE computed
  /\ at' = at + 1
  /\ UNCHANGED <<graph, source, pc, planning, entry>>

RunGeneric == Perform({"generic"})
RunConv == Perform({"pointwise", "dense"})
RunDepthwise == Perform({"depthwise"})
RunElementwise == Perform({"unary", "binary"})
RunMapWise == Perform({"reduce", "pool", "bn", "concat"})
RunGelu == Perform({"gelu"})
RunOp == RunGeneric \/ RunConv \/ RunDepthwise \/ RunElementwise \/ RunMapWise \/ RunGelu

(* A kernel or an operation of the session's executor reports an error, or *)
(* an operand cannot be had.  The caller drops the plan.                   *)
RunFails ==
  /\ pc = "run" /\ at <= Len(ops)
  /\ Refused(ops[at]) \/ ops[at].kind \in {"generic", "dense", "depthwise"}
  /\ pc' = "rejected" /\ computed' = {}
  /\ UNCHANGED <<graph, source, planning, entry, at, available, copies>>

(* A run from NCHW ends with the output in NCHW.  What the caller copies   *)
(* is the graph's output only if that copy is the current value.           *)
Finish ==
  /\ pc = "run" /\ at > Len(ops) /\ pc' = "done"
  /\ LET out == CHOOSE t \in graph.outputs : TRUE
         l == IF entry = "NHWC" /\ Copy(out, "NCHW") \notin copies THEN "NHWC" ELSE "NCHW"
         s == IF entry = "NCHW" /\ Rank4(graph, out)
                THEN Ensure([available |-> available, copies |-> copies, ok |-> TRUE], out, "NCHW")
                ELSE [available |-> available, copies |-> copies, ok |-> TRUE]
     IN  /\ available' = s.available /\ copies' = s.copies
         /\ computed' = IF s.ok /\ Copy(out, l) \in s.copies THEN computed ELSE computed \ {out}
  /\ UNCHANGED <<graph, source, planning, entry, at>>

-----------------------------------------------------------------------------
(* A plan of the same graph whose weights are borrowed: it packed all of   *)
(* the convolutions but at most one, and folded what it could but at most  *)
(* one.                                                                    *)
ConvNodes == {n \in Nodes(graph) : Kind(n) \in Convs}
Sources ==
  {NoSource} \cup
  {s \in [packed : {ConvNodes \ x : x \in {{}} \cup {{n} : n \in ConvNodes}},
          folded : {{n \in ConvNodes : TakesBn(n)} \ x : x \in {{}} \cup {{n} : n \in ConvNodes}},
          given : {TRUE}] : s.folded \subseteq s.packed}

Init ==
  /\ graph \in Graphs
  /\ layouts = LayoutPlan(graph, TRUE)
  /\ source \in Sources
  /\ pc = "compile" /\ node = 1 /\ failures = 0
  /\ ops = <<>> /\ slots = <<>> /\ place = [t \in All |-> -1]
  /\ entry = "NCHW" /\ at = 1
  /\ available = [t \in All |-> {}] /\ copies = {} /\ computed = {}

Compile == CompileConv \/ CompileOther \/ CompileGeneric \/ EndCompile
Create == Compile \/ PlaceNext \/ EndPlace \/ CreateFails
Run == Begin \/ RunOp \/ RunFails \/ Finish
Next == Create \/ Run
Spec == Init /\ [][Next]_vars

-----------------------------------------------------------------------------
(* The condition under which the two properties below hold: a normalised   *)
(* convolution has whole blocks.  The code takes others too                *)
(* (lw_layout_node_nhwc_capable), packs their last, partial block and does *)
(* not scale it (fast_scale_conv_weights): such a plan computes something  *)
(* else.                                                                   *)
WholeBlocks ==
  \A n \in Nodes(graph) :
    /\ Op(n) = "conv" /\ graph.nodes[n].form \in WithEpilogue
    /\ n + 1 \in Nodes(graph) /\ Op(n + 1) = "bn"
    => ~graph.nodes[n].tail

(* A run that succeeds has computed the graph's output, every value from   *)
(* the current values of its operands: no stale copy is read, no slot of   *)
(* the workspace is reused too early, nothing fused is read elsewhere, and *)
(* no normalisation is applied twice or lost (fast_execute_backbone).      *)
Eval == INSTANCE GraphEvaluation WITH
          graph <- graph,
          evaluated <- computed,
          outcome <- IF pc = "run" THEN "running" ELSE IF computed = {} THEN "none" ELSE "ok"
EvalSpec == Eval!Spec

(* Where available_layouts says that a layout of a tensor is there, that   *)
(* copy is the current value as long as an operation still reads the       *)
(* tensor (fast_publish_nchw, fast_publish_nhwc, fast_ensure_nhwc).        *)
AvailableIsCurrent ==
  pc = "run" =>
    \A t \in All : \A l \in available[t] :
      Life(t).last >= at => Copy(t, l) \in copies
=============================================================================
