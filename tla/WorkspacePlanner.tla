-------------------------- MODULE WorkspacePlanner --------------------------
(***************************************************************************)
(* The placement of a graph's intermediate tensors in one workspace        *)
(* (runtime/memory.c), the fused GELU chain that the plan may elide        *)
(* (runtime/execution_plan.c) and the run of the graph over that workspace *)
(* (runtime/executor.c).                                                   *)
(*                                                                         *)
(* Planning is sequential; what is checked is that ranges may be reused    *)
(* without any node ever reading what another tensor left there.  Offsets  *)
(* and sizes count lines of LW_WORKSPACE_ALIGNMENT bytes, so align_        *)
(* workspace is already applied, and the fused pass moves a line at a      *)
(* time.  Nodes are numbered from 1.  Sizes are positive (shape.c rejects  *)
(* other dimensions) and far from 2^64.                                    *)
(***************************************************************************)
EXTENDS Integers, Sequences, FiniteSets, SequencesExt

CONSTANTS
  Graphs,        \* the graphs to plan, see GraphAssumption
  Builds,        \* the builds of the library, see BuildAssumption
  Avx2           \* session->cpu.simd is an AVX2 level

(* A graph: its nodes [op, ins, outs] in execution order, the size of each *)
(* tensor, and its outputs.  Tensor 0 is the graph input, which the caller *)
(* owns; constants are left out of ins.  Every other tensor that is read   *)
(* or is an output was produced before.                                    *)
ASSUME GraphAssumption ==
  \A g \in Graphs :
    /\ g.nodes \in Seq([op : STRING, ins : Seq(Nat), outs : Seq(Nat \ {0})])
    /\ \A t \in g.outputs : t = 0 \/ \E n \in DOMAIN g.nodes : t \in ToSet(g.nodes[n].outs)
    /\ \A n, m \in DOMAIN g.nodes :
         n # m => ToSet(g.nodes[n].outs) \cap ToSet(g.nodes[m].outs) = {}
    /\ \A n \in DOMAIN g.nodes : \A t \in ToSet(g.nodes[n].ins) :
         t = 0 \/ \E m \in 1..n-1 : t \in ToSet(g.nodes[m].outs)
    /\ \A n \in DOMAIN g.nodes : \A t \in ToSet(g.nodes[n].outs) :
         g.size[t] \in Nat \ {0}

(* A build: LW_EXPERIMENTAL_WORKSPACE_PLANNER_V2, on which LW_EXPERIMENTAL_*)
(* FUSION_MEMORY depends, and the max_workspace_size its sessions get.     *)
ASSUME BuildAssumption ==
  \A b \in Builds :
    /\ b.planner_v2 \in BOOLEAN /\ b.fusion_memory \in BOOLEAN
    /\ b.fusion_memory => b.planner_v2
    /\ b.max_workspace \in Nat

VARIABLES
  build,     \* chosen once
  pc,        \* "v1", "v2", "choose": planning; "run", "done", "failed"
  graph,
  node,      \* the node the planner or the executor is at
  offset,    \* tensor->workspace_offset, NoOffset where there is none
  live,      \* tensor->workspace_live of lw_plan_workspace_v1
  blocks,    \* its free list
  end,       \* workspace_end
  v1,        \* what lw_plan_workspace remembers of the first plan
  candidate, \* the offset interval_find_offset is trying
  line,      \* the line the fused pass is at
  memory     \* what each line holds: <<tensor, line of the tensor>>

planning == <<offset, live, blocks, end, v1, candidate>>
vars == <<build, pc, graph, node, offset, live, blocks, end, v1, candidate, line,
          memory>>

NoOffset == -1
Garbage == <<-1, 0>>
Nodes == DOMAIN graph.nodes
Tensors == UNION {ToSet(graph.nodes[n].outs) : n \in Nodes}
LargestOf(S) == CHOOSE x \in S : \A y \in S : x >= y
LeastOf(S) == CHOOSE x \in S : \A y \in S : x <= y

-----------------------------------------------------------------------------
(* Lifetimes: closed intervals of nodes.  Outputs outlive the last node.   *)

Birth(t) == CHOOSE n \in Nodes : t \in ToSet(graph.nodes[n].outs)

(* Mutation: a tensor dies with its first consumer. *)
LastUseFirstRead(t) ==
  LET reads == {n \in Nodes : t \in ToSet(graph.nodes[n].ins)}
  IN  IF t \in graph.outputs THEN Len(graph.nodes) + 1
      ELSE IF reads = {} THEN Birth(t)
      ELSE CHOOSE n \in reads : \A m \in reads : n <= m

LastUse(t) ==
  IF t \in graph.outputs
    THEN Len(graph.nodes) + 1
    ELSE LargestOf({Birth(t)} \cup {n \in Nodes : t \in ToSet(graph.nodes[n].ins)})

LifetimesOverlap(t, u) == Birth(t) <= LastUse(u) /\ Birth(u) <= LastUse(t)

(* lw_match_fused_gelu: the chain X/sqrt2, erf, +1, *X, *0.5, each with    *)
(* one output.  The other operand of the division is a constant.           *)
Chain == <<"Div", "Erf", "Add", "Mul", "Mul">>
Out(n) == graph.nodes[n].outs[1]
Source(n) == graph.nodes[n].ins[1]
Reads(n, t) == t \in ToSet(graph.nodes[n].ins)

Matches(n) ==
  /\ n + 4 <= Len(graph.nodes)
  /\ Len(graph.nodes[n].ins) = 1
  /\ \A k \in 0..4 : /\ graph.nodes[n + k].op = Chain[k + 1]
                     /\ Len(graph.nodes[n + k].outs) = 1
                     /\ graph.size[Out(n + k)] = graph.size[Source(n)]
  /\ \A k \in 0..3 : Reads(n + k + 1, Out(n + k))
  /\ Reads(n + 3, Source(n))

(* Both of its callers also want the four temporaries to be private. *)
FusedAt(n) ==
  /\ Avx2 /\ Matches(n)
  /\ \A k \in 0..3 : LastUse(Out(n + k)) = n + k + 1

(* Mutation: the plan elides temporaries that others read, too. *)
SkippedShared(t) ==
  /\ build.fusion_memory
  /\ \E n \in Nodes : Avx2 /\ Matches(n) /\ \E k \in 0..3 : t = Out(n + k)

(* lw_execution_plan_is_skipped_tensor: the plan elides the temporaries.   *)
Skipped(t) ==
  /\ build.fusion_memory
  /\ \E n \in Nodes : FusedAt(n) /\ \E k \in 0..3 : t = Out(n + k)

Planned == {t \in Tensors : ~Skipped(t)}

Init ==
  /\ build \in Builds
  /\ graph \in Graphs
  /\ pc = "v1" /\ node = 1
  /\ offset = [t \in Tensors |-> NoOffset]
  /\ live = {} /\ blocks = <<>> /\ end = 0
  /\ v1 = [ok |-> FALSE, end |-> 0, offset |-> offset]
  /\ candidate = 0 /\ line = 0 /\ memory = <<>>

-----------------------------------------------------------------------------
(* lw_plan_workspace_v1: first fit in a sorted, coalesced free list.       *)

(* Blocks i and i+1 become one when they touch. *)
Join(s, i) ==
  IF i \in 1..Len(s)-1 /\ s[i].offset + s[i].size = s[i + 1].offset
    THEN RemoveAt([s EXCEPT ![i].size = @ + s[i + 1].size], i + 1)
    ELSE s

AddFreeBlock(s, block) ==
  LET before == Cardinality({i \in DOMAIN s : s[i].offset < block.offset})
      right  == Join(InsertAt(s, before + 1, block), before + 1)
  IN  Join(right, before)

Fits(size) == {i \in DOMAIN blocks : blocks[i].size >= size}

(* What is left of the free list after size lines of block i are taken. *)
Take(i, size) ==
  IF blocks[i].size = size
    THEN RemoveAt(blocks, i)
    ELSE [blocks EXCEPT ![i] = [offset |-> @.offset + size, size |-> @.size - size]]

Expired == {t \in live : LastUse(t) < node}
Outs == graph.nodes[node].outs
Due == {j \in DOMAIN Outs : ~Skipped(Outs[j]) /\ offset[Outs[j]] = NoOffset}
NextDue == Outs[LeastOf(Due)]

V1Expire ==
  /\ pc = "v1" /\ node \in Nodes
  /\ \E t \in Expired :
       /\ \A u \in Expired : t <= u
       /\ blocks' = AddFreeBlock(blocks, [offset |-> offset[t], size |-> graph.size[t]])
       /\ live' = live \ {t}
  /\ UNCHANGED <<pc, graph, node, offset, end, v1, candidate, line, memory>>

Placed(t, at) ==
  /\ offset' = [offset EXCEPT ![t] = at]
  /\ live' = live \cup {t}

(* Mutation: the tensor is put at the upper end of the block. *)
V1ReuseFromTop ==
  /\ pc = "v1" /\ node \in Nodes /\ Expired = {} /\ Due # {}
  /\ \E i \in Fits(graph.size[NextDue]) :
       /\ \A j \in Fits(graph.size[NextDue]) : i <= j
       /\ Placed(NextDue, blocks[i].offset + blocks[i].size - graph.size[NextDue])
       /\ blocks' = IF blocks[i].size = graph.size[NextDue] THEN RemoveAt(blocks, i)
                    ELSE [blocks EXCEPT ![i].size = @ - graph.size[NextDue]]
  /\ UNCHANGED <<pc, graph, node, end, v1, candidate, line, memory>>

V1Reuse ==
  /\ pc = "v1" /\ node \in Nodes /\ Expired = {} /\ Due # {}
  /\ \E i \in Fits(graph.size[NextDue]) :
       /\ \A j \in Fits(graph.size[NextDue]) : i <= j
       /\ Placed(NextDue, blocks[i].offset)
       /\ blocks' = Take(i, graph.size[NextDue])
  /\ UNCHANGED <<pc, graph, node, end, v1, candidate, line, memory>>

V1Extend ==
  /\ pc = "v1" /\ node \in Nodes /\ Expired = {} /\ Due # {}
  /\ Fits(graph.size[NextDue]) = {}
  /\ end + graph.size[NextDue] <= build.max_workspace
  /\ Placed(NextDue, end)
  /\ end' = end + graph.size[NextDue]
  /\ UNCHANGED <<pc, graph, node, blocks, v1, candidate, line, memory>>

V1NextNode ==
  /\ pc = "v1" /\ node \in Nodes /\ Expired = {} /\ Due = {}
  /\ node' = node + 1
  /\ UNCHANGED <<pc, graph, line, memory, planning>>

(* The session gets its workspace, with nothing in it. *)
Accept(size) ==
  /\ pc' = "run" /\ node' = 1
  /\ memory' = [at \in 0..size-1 |-> Garbage]

(* lw_plan_workspace_v2 clears what the first plan left in the session. *)
StartV2(ok) ==
  /\ pc' = "v2"
  /\ v1' = [ok |-> ok, end |-> IF ok THEN end ELSE 0, offset |-> offset]
  /\ offset' = [t \in Tensors |-> NoOffset]
  /\ live' = {} /\ blocks' = <<>> /\ end' = 0 /\ candidate' = 0
  /\ UNCHANGED <<node, memory>>

V1Done ==
  /\ pc = "v1" /\ node \notin Nodes
  /\ \/ ~build.planner_v2 /\ Accept(end) /\ UNCHANGED planning
     \/ build.planner_v2 /\ StartV2(TRUE)
  /\ UNCHANGED <<graph, line>>

(* LW_STATUS_MEMORY_LIMIT *)
V1Fails ==
  /\ pc = "v1" /\ node \in Nodes /\ Expired = {} /\ Due # {}
  /\ Fits(graph.size[NextDue]) = {}
  /\ end + graph.size[NextDue] > build.max_workspace
  /\ \/ ~build.planner_v2 /\ pc' = "failed" /\ UNCHANGED <<node, memory, planning>>
     \/ build.planner_v2 /\ StartV2(FALSE)
  /\ UNCHANGED <<graph, line>>

-----------------------------------------------------------------------------
(* lw_plan_workspace_v2: largest first, each at the lowest offset that no  *)
(* placed interval alive at the same time takes.                           *)

(* interval_before *)
Before(t, u) ==
  \/ graph.size[t] > graph.size[u]
  \/ /\ graph.size[t] = graph.size[u]
     /\ Birth(t) < Birth(u) \/ (Birth(t) = Birth(u) /\ t < u)

FirstOf(S) == CHOOSE t \in S : \A u \in S \ {t} : Before(t, u)
Unplaced == {t \in Planned : offset[t] = NoOffset}

(* Mutation: half-open lifetimes, an output may lie over its input. *)
CollidesHalfOpen(t, at) ==
  {u \in Planned \ Unplaced :
     /\ Birth(t) < LastUse(u) /\ Birth(u) < LastUse(t)
     /\ at < offset[u] + graph.size[u]
     /\ offset[u] < at + graph.size[t]}

Collides(t, at) ==
  {u \in Planned \ Unplaced :
     /\ LifetimesOverlap(t, u)
     /\ at < offset[u] + graph.size[u]
     /\ offset[u] < at + graph.size[t]}

V2Move ==
  /\ pc = "v2" /\ Unplaced # {}
  /\ LET hit == Collides(FirstOf(Unplaced), candidate)
     IN  hit # {} /\ candidate' = offset[FirstOf(hit)] + graph.size[FirstOf(hit)]
  /\ UNCHANGED <<pc, graph, node, offset, live, blocks, end, v1, line, memory>>

V2Place ==
  /\ pc = "v2" /\ Unplaced # {}
  /\ LET t == FirstOf(Unplaced)
     IN  /\ Collides(t, candidate) = {}
         /\ offset' = [offset EXCEPT ![t] = candidate]
         /\ end' = LargestOf({end, candidate + graph.size[t]})
  /\ candidate' = 0
  /\ UNCHANGED <<pc, graph, node, live, blocks, v1, line, memory>>

V2Done ==
  /\ pc = "v2" /\ Unplaced = {}
  /\ pc' = "choose"
  /\ UNCHANGED <<graph, node, line, memory, planning>>

(* lw_plan_workspace: the second plan if it succeeded and is not larger.   *)
V2Ok == end <= build.max_workspace

KeepV2 ==
  /\ pc = "choose"
  /\ V2Ok /\ (v1.ok => end <= v1.end)
  /\ Accept(end)
  /\ UNCHANGED <<graph, line, planning>>

RestoreV1 ==
  /\ pc = "choose"
  /\ v1.ok /\ (V2Ok => end > v1.end)
  /\ offset' = v1.offset /\ end' = v1.end
  /\ Accept(v1.end)
  /\ UNCHANGED <<graph, live, blocks, v1, candidate, line>>

NeitherFits ==
  /\ pc = "choose" /\ ~V2Ok /\ ~v1.ok
  /\ pc' = "failed"
  /\ UNCHANGED <<graph, node, line, memory, planning>>

-----------------------------------------------------------------------------
(* The run.  A tensor's line is right when it was computed from right ones.*)

Holds(t, l) == t = 0 \/ memory[offset[t] + l] = <<t, l>>
Intact(t) == t = 0 \/ \A l \in 0..graph.size[t]-1 : Holds(t, l)

(* dispatch_node: a kernel reads its inputs while it writes its outputs. *)
RunNode ==
  /\ pc = "run" /\ node \in Nodes /\ ~FusedAt(node)
  /\ LET right == \A t \in ToSet(graph.nodes[node].ins) : Intact(t)
         at(t) == offset[t]..offset[t] + graph.size[t] - 1
         outs  == ToSet(graph.nodes[node].outs)
     IN  memory' = [a \in DOMAIN memory |->
                      IF \E t \in outs : a \in at(t)
                        THEN LET t == CHOOSE u \in outs : a \in at(u)
                             IN  IF right THEN <<t, a - offset[t]>> ELSE Garbage
                        ELSE memory[a]]
  /\ node' = node + 1
  /\ UNCHANGED <<pc, graph, line, planning>>

(* lw_avx2_gelu_f32: one forward pass from X to the output of the fifth node. *)
RunFusedLine ==
  /\ pc = "run" /\ node \in Nodes /\ FusedAt(node)
  /\ line < graph.size[Out(node + 4)]
  /\ memory' = [memory EXCEPT ![offset[Out(node + 4)] + line] =
                  IF Holds(Source(node), line) THEN <<Out(node + 4), line>> ELSE Garbage]
  /\ line' = line + 1
  /\ UNCHANGED <<pc, graph, node, planning>>

FusedDone ==
  /\ pc = "run" /\ node \in Nodes /\ FusedAt(node)
  /\ line = graph.size[Out(node + 4)]
  /\ line' = 0 /\ node' = node + 5
  /\ UNCHANGED <<pc, graph, memory, planning>>

RunDone ==
  /\ pc = "run" /\ node \notin Nodes
  /\ pc' = "done"
  /\ UNCHANGED <<graph, node, line, memory, planning>>

Next ==
  /\ UNCHANGED build
  /\ \/ V1Expire \/ V1Reuse \/ V1Extend \/ V1NextNode \/ V1Done \/ V1Fails
     \/ V2Move \/ V2Place \/ V2Done
     \/ KeepV2 \/ RestoreV1 \/ NeitherFits
     \/ RunNode \/ RunFusedLine \/ FusedDone \/ RunDone

Spec == Init /\ [][Next]_vars

-----------------------------------------------------------------------------
(* Properties *)

Lines(t) == offset[t]..offset[t] + graph.size[t] - 1

(* In a plan that a session runs with, two tensors alive at the same node, *)
(* an input and an output of that node included, share no line.            *)
LiveRangesDisjoint ==
  pc = "run" =>
    \A t, u \in Planned :
      t # u /\ LifetimesOverlap(t, u) => Lines(t) \cap Lines(u) = {}

(* The fused pass writes its output while it reads an input whose planned  *)
(* life has ended.  First fit sees to it, by where it puts the output, that*)
(* the two do not meet; planning by size does not.                         *)
PassIsSafe == ~build.planner_v2 \/ \A n \in Nodes : ~FusedAt(n)

(* Whatever a node is about to read is what its producer wrote, and so are *)
(* the graph's outputs when the run is over.                               *)
ReadsIntact ==
  PassIsSafe =>
    /\ pc = "run" /\ node \in Nodes /\ ~FusedAt(node) =>
         \A t \in ToSet(graph.nodes[node].ins) : Intact(t)
    /\ pc = "done" => \A t \in graph.outputs : Intact(t)

(* In the default build the fused pass finds every line of its input as it *)
(* was computed, though the plan counts the input as dead before the       *)
(* output is born.                                                         *)
FusedReadsIntact ==
  ( /\ PassIsSafe /\ pc = "run" /\ node \in Nodes
    /\ FusedAt(node) /\ line < graph.size[Out(node + 4)] )
  => Holds(Source(node), line)

(* A node that runs by itself has a place for everything it reads and      *)
(* writes: the compact plan never falls back to an elided temporary.       *)
NoElidedTensorIsUsed ==
  pc = "run" /\ node \in Nodes /\ ~FusedAt(node) =>
    \A t \in ToSet(graph.nodes[node].ins) \cup ToSet(graph.nodes[node].outs) :
      t = 0 \/ offset[t] # NoOffset
=============================================================================
