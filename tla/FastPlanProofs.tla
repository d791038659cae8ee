--------------------------- MODULE FastPlanProofs ---------------------------
(***************************************************************************)
(* For any recognition graphs whose normalised convolutions have whole     *)
(* blocks, and any failures while a plan is made: what a plan's executor   *)
(* holds for a tensor's current value is that value, and a run that        *)
(* succeeds has computed the graph's outputs from current values, as       *)
(* GraphEvaluation has it.                                                 *)
(***************************************************************************)
EXTENDS FastPlan, SequenceTheorems, FiniteSetTheorems, FunctionTheorems,
        WellFoundedInduction, TLAPS

-----------------------------------------------------------------------------
(* Numbers and sequences.                                                  *)

(* A nonempty set of naturals with a bound has a greatest element.         *)
LEMMA GreatestOf ==
  ASSUME NEW b \in Nat, NEW T, T \subseteq 0 .. b, T # {}
  PROVE  \E x \in T : \A y \in T : y <= x
<1> DEFINE Above(x) == {y \in T : x <= y}
           F == {Above(x) : x \in T}
<1>1. IsFiniteSet(0 .. b) /\ \A x \in T : x \in Nat
  BY FS_Interval
<1>2. F \subseteq SUBSET (0 .. b) /\ F # {}
  OBVIOUS
<1>3. IsWellFoundedOn(StrictSubsetOrdering(0 .. b), SUBSET (0 .. b))
  BY <1>1, FS_StrictSubsetOrderingWellFounded, FS_FiniteSubsetsOfFinite
<1>4. PICK U \in F : \A V \in F : <<V, U>> \notin StrictSubsetOrdering(0 .. b)
  <2> HIDE DEF F
  <2>1. QED
    BY <1>2, <1>3, WFMin
<1>5. PICK x \in T : U = Above(x)
  OBVIOUS
<1>6. ASSUME NEW y \in T, x < y PROVE FALSE
  <2>0. x <= x /\ ~(y <= x) /\ \A z \in T : y <= z => x <= z
    BY <1>1, <1>6
  <2>1. Above(y) \subseteq Above(x) /\ x \in Above(x) /\ x \notin Above(y)
    BY <2>0, Zenon
  <2>2. Above(y) \in F /\ Above(x) \in SUBSET (0 .. b) /\ Above(y) \in SUBSET (0 .. b)
    OBVIOUS
  <2> HIDE DEF Above, F
  <2>3. QED
    BY <1>4, <1>5, <2>1, <2>2 DEF StrictSubsetOrdering
<1>7. QED
  BY <1>1, <1>6

(* Induction up to a bound, for what can be said with a set.               *)
LEMMA Induction ==
  ASSUME NEW N \in Nat, NEW S, 0 \in S, \A n \in 0 .. N - 1 : n \in S => n + 1 \in S
  PROVE  0 .. N \subseteq S
<1> SUFFICES ASSUME NEW k \in 0 .. N, k \notin S PROVE FALSE
  OBVIOUS
<1> DEFINE T == {m \in 0 .. k : m \in S}
<1>1. T \subseteq 0 .. k /\ T # {} /\ k \in Nat
  OBVIOUS
<1>2. PICK m \in T : \A y \in T : y <= m
  <2> HIDE DEF T
  <2>1. QED
    BY <1>1, GreatestOf
<1>3. m \in 0 .. N - 1 /\ m \in S /\ m + 1 \in 0 .. k /\ ~(m + 1 <= m)
  <2>1. m \in 0 .. k /\ m \in S /\ m # k
    OBVIOUS
  <2>2. QED
    BY <2>1
<1>4. QED
  BY <1>2, <1>3

(* A function on 0 .. N is defined by its first value and by a step.       *)
Unrolls(f, N, a, G) == f[0] = a /\ \A n \in 1 .. N : f[n] = G[n][f[n - 1]]
LEMMA Recursion ==
  ASSUME NEW N \in Nat, NEW A, NEW a \in A, NEW G \in [1 .. N -> [A -> A]]
  PROVE  \E f \in [0 .. N -> A] : Unrolls(f, N, a, G)
<1> DEFINE Defines(k, f) == f[0] = a /\ \A n \in 1 .. k : f[n] = G[n][f[n - 1]]
           S == {k \in 0 .. N : \E f \in [0 .. k -> A] : Defines(k, f)}
<1>1. 0 \in S
  <2> DEFINE f == [n \in 0 .. 0 |-> a]
  <2>1. f \in [0 .. 0 -> A] /\ f[0] = a /\ 1 .. 0 = {} /\ 0 \in 0 .. N
    OBVIOUS
  <2> HIDE DEF f
  <2> QED
    BY <2>1
<1>2. ASSUME NEW k \in 0 .. N - 1, k \in S
      PROVE  k + 1 \in S
  <2>1. PICK f \in [0 .. k -> A] : Defines(k, f)
    BY <1>2
  <2> DEFINE h == [n \in 0 .. k + 1 |-> IF n = k + 1 THEN G[n][f[k]] ELSE f[n]]
  <2>2. k \in Nat /\ k + 1 \in 0 .. N /\ k \in 0 .. k /\ k + 1 \in 1 .. N
    OBVIOUS
  <2>3. h \in [0 .. k + 1 -> A]
    BY <2>2
  <2>4. h[0] = a
    BY <2>1, <2>2
  <2>5. ASSUME NEW n \in 1 .. k + 1
        PROVE  h[n] = G[n][h[n - 1]]
    <3>1. n - 1 \in 0 .. k /\ n - 1 # k + 1 /\ h[n - 1] = f[n - 1]
      BY <2>2
    <3>2. CASE n = k + 1
      BY <3>1, <3>2, <2>2
    <3>3. CASE n # k + 1
      <4>1. n \in 1 .. k /\ h[n] = f[n]
        BY <3>3, <2>2
      <4> QED
        BY <2>1, <3>1, <4>1
    <3> QED
      BY <3>2, <3>3
  <2> QED
    BY <2>2, <2>3, <2>4, <2>5
<1>3. 0 .. N \subseteq S
  <2> HIDE DEF S
  <2> QED
    BY <1>1, <1>2, Induction
<1> QED
  BY <1>3 DEF Unrolls

-----------------------------------------------------------------------------
(* Graphs.                                                                 *)

LEMMA GraphFacts ==
  ASSUME NEW g \in Graphs
  PROVE  /\ Len(g.nodes) \in Nat /\ Nodes(g) = 1 .. Len(g.nodes)
         /\ Tensors(g) \subseteq Nat \ {0} /\ g.input \in Tensors(g)
         /\ g.outputs # {} /\ \A t \in g.outputs : Readers(g, t) = {}
         /\ \A t \in g.outputs : \E n \in Nodes(g) : Out(g, n) = t
         /\ \A n \in Nodes(g) :
              /\ Out(g, n) \in Tensors(g) \ (g.const \cup {g.input})
              /\ \A m \in Nodes(g) : Out(g, m) = Out(g, n) => m = n
<1>1. WellFormed(g) /\ WellTyped(g)
  BY GraphsWellFormed
<1>2. Len(g.nodes) \in Nat /\ Nodes(g) = 1 .. Len(g.nodes)
  <2>1. g.nodes \in Seq({g.nodes[n] : n \in Nodes(g)})
    BY <1>1 DEF WellTyped
  <2> QED
    BY <2>1, LenProperties DEF Nodes
<1>3. g.outputs # {} /\ \A t \in g.outputs : Readers(g, t) = {}
  BY OutputsAssumption
<1> QED
  BY <1>1, <1>2, <1>3 DEF WellFormed, WellTyped

LEMMA OperandFacts ==
  ASSUME NEW g \in Graphs, NEW n \in Nodes(g)
  PROVE  /\ g.nodes[n].ins \in Seq(Tensors(g)) /\ Len(g.nodes[n].ins) \in Nat
         /\ Slots(g, n) = 1 .. Len(g.nodes[n].ins) /\ 1 \in Slots(g, n)
         /\ \A t \in Ins(g, n) :
              /\ t \in Tensors(g)
              /\ \/ t \in g.const \cup {g.input}
                 \/ \E m \in Nodes(g) : m < n /\ Out(g, m) = t
<1>1. WellFormed(g) /\ WellTyped(g)
  BY GraphsWellFormed
<1>2. /\ g.nodes[n].ins \in Seq(Tensors(g)) /\ Len(g.nodes[n].ins) \in Nat
      /\ Slots(g, n) = 1 .. Len(g.nodes[n].ins) /\ 1 \in Slots(g, n)
      /\ \A s \in Slots(g, n) : g.nodes[n].ins[s] \in Tensors(g)
  <2>1. g.nodes[n].ins \in Seq(Tensors(g)) /\ g.nodes[n].ins # <<>>
    BY <1>1 DEF WellTyped
  <2>2. Len(g.nodes[n].ins) \in Nat /\ Len(g.nodes[n].ins) # 0
    BY <2>1, LenProperties, EmptySeq
  <2> QED
    BY <2>1, <2>2, LenProperties, ElementOfSeq DEF Slots
<1>3. \A t \in Ins(g, n) : t \in Tensors(g)
  BY <1>2 DEF Ins
<1>4. ASSUME NEW t \in Ins(g, n), t \notin g.const \cup {g.input}
      PROVE  \E m \in Nodes(g) : m < n /\ Out(g, m) = t
  <2>1. PICK m \in 1 .. n - 1 : Out(g, m) = t
    BY <1>1, <1>4 DEF WellFormed
  <2>2. m \in Nodes(g) /\ m < n
    BY GraphFacts
  <2> QED
    BY <2>1, <2>2
<1> QED
  BY <1>2, <1>3, <1>4

LEMMA ProducerIs ==
  ASSUME NEW g \in Graphs
  PROVE  /\ \A n \in Nodes(g) : Producer(g, Out(g, n)) = n
         /\ \A t \in Tensors(g) :
              \/ Producer(g, t) \in Nodes(g) /\ Out(g, Producer(g, t)) = t
              \/ Producer(g, t) = 0 /\ \A n \in Nodes(g) : Out(g, n) # t
BY GraphFacts DEF Producer

(* What is counted once has one reader, at one of its operands.            *)
LEMMA SoleReader ==
  ASSUME NEW g \in Graphs, NEW t, UseCount(g, t) = 1
  PROVE  \E n \in Nodes(g) : \E s \in Slots(g, n) :
           /\ g.nodes[n].ins[s] = t
           /\ \A m \in Nodes(g) : \A r \in Slots(g, m) : g.nodes[m].ins[r] = t => m = n /\ r = s
<1> DEFINE pairs == UNION {{n} \X Slots(g, n) : n \in Nodes(g)}
           uses == {u \in pairs : g.nodes[u[1]].ins[u[2]] = t}
           f == [n \in Nodes(g) |-> {n} \X Slots(g, n)]
<1>1. IsFiniteSet(Nodes(g)) /\ \A n \in Nodes(g) : IsFiniteSet({n} \X Slots(g, n))
  <2>1. IsFiniteSet(Nodes(g))
    BY GraphFacts, FS_Interval, 1 \in Int, Len(g.nodes) \in Int
  <2>2. ASSUME NEW n \in Nodes(g) PROVE IsFiniteSet({n} \X Slots(g, n))
    <3>1. Slots(g, n) = 1 .. Len(g.nodes[n].ins) /\ Len(g.nodes[n].ins) \in Int
      BY OperandFacts
    <3>2. IsFiniteSet(Slots(g, n))
      BY <3>1, FS_Interval, 1 \in Int
    <3>3. IsFiniteSet({n})
      BY FS_Singleton
    <3> QED
      BY <3>2, <3>3, FS_Product
  <2> QED
    BY <2>1, <2>2
<1>2. IsFiniteSet({{n} \X Slots(g, n) : n \in Nodes(g)})
  <2> DEFINE images == {{n} \X Slots(g, n) : n \in Nodes(g)}
  <2>1. f \in [Nodes(g) -> images] /\ images = {f[n] : n \in Nodes(g)}
    OBVIOUS
  <2> HIDE DEF f, images
  <2>2. f \in Surjection(Nodes(g), images)
    BY <2>1 DEF Surjection
  <2> QED
    BY <1>1, <2>2, FS_Surjection DEF images
<1>3. IsFiniteSet(pairs)
  <2>1. \A T \in {{n} \X Slots(g, n) : n \in Nodes(g)} : IsFiniteSet(T)
    BY <1>1
  <2> QED
    BY <1>2, <2>1, FS_UNION
<1>4. IsFiniteSet(uses) /\ Cardinality(uses) = 1
  <2>1. uses \in SUBSET pairs
    OBVIOUS
  <2>2. Cardinality(uses) = 1
    BY DEF UseCount
  <2> HIDE DEF uses, pairs
  <2> QED
    BY <1>3, <2>1, <2>2, FS_Subset
<1>5. PICK u : uses = {u}
  <2> HIDE DEF uses
  <2> QED
    BY <1>4, FS_Singleton
<1>6. \A m \in Nodes(g) : \A r \in Slots(g, m) : <<m, r>> \in pairs
  OBVIOUS
<1>7. u \in pairs /\ g.nodes[u[1]].ins[u[2]] = t
  BY <1>5
<1>8. PICK n \in Nodes(g) : u \in {n} \X Slots(g, n)
  BY <1>7
<1>9. PICK s \in Slots(g, n) : u = <<n, s>>
  BY <1>8
<1>10. ASSUME NEW m \in Nodes(g), NEW r \in Slots(g, m), g.nodes[m].ins[r] = t
       PROVE  m = n /\ r = s
  <2>1. <<m, r>> \in uses
    BY <1>6, <1>10
  <2> QED
    BY <1>5, <1>9, <2>1
<1> QED
  BY <1>7, <1>9, <1>10

-----------------------------------------------------------------------------
(* The layout planner.                                                     *)

Plans(g) == [available : [Tensors(g) -> SUBSET Both], layout : [Nodes(g) -> Both]]

LEMMA VisitFacts ==
  ASSUME NEW g \in Graphs, NEW n \in Nodes(g), NEW p \in Plans(g)
  PROVE  /\ Visit(g, p, n) \in Plans(g)
         /\ \A m \in Nodes(g) \ {n} : Visit(g, p, n).layout[m] = p.layout[m]
         /\ Visit(g, p, n).layout[n] = IF ChooseNhwc(g, p, n) THEN "NHWC" ELSE "NCHW"
         /\ Out(g, n) \notin g.neutral =>
              Visit(g, p, n).layout[n] \in Visit(g, p, n).available[Out(g, n)]
         /\ \A t \in Tensors(g) \ {Out(g, n)} : p.available[t] \subseteq Visit(g, p, n).available[t]
<1> DEFINE chosen == IF ChooseNhwc(g, p, n) THEN "NHWC" ELSE "NCHW"
           av == [t \in Tensors(g) |->
                    CASE t = Out(g, n) -> IF t \in g.neutral THEN {"NCHW", "NHWC"} ELSE {chosen}
                      [] t \in ActivationInputs(g, n) -> p.available[t] \cup {chosen}
                      [] OTHER -> p.available[t]]
           lay == [p.layout EXCEPT ![n] = chosen]
<1>1. Visit(g, p, n) = [available |-> av, layout |-> lay]
  BY DEF Visit
<1>2. /\ p.layout \in [Nodes(g) -> Both] /\ p.available \in [Tensors(g) -> SUBSET Both]
      /\ chosen \in Both /\ Out(g, n) \in Tensors(g)
      /\ chosen = IF ChooseNhwc(g, p, n) THEN "NHWC" ELSE "NCHW"
  BY GraphFacts DEF Plans, Both
<1> HIDE DEF chosen
<1>3. lay \in [Nodes(g) -> Both] /\ lay[n] = chosen /\ \A m \in Nodes(g) \ {n} : lay[m] = p.layout[m]
  BY <1>2
<1>4. av \in [Tensors(g) -> SUBSET Both]
  <2>1. ASSUME NEW t \in Tensors(g) PROVE av[t] \in SUBSET Both
    BY <1>2 DEF Both
  <2> QED
    BY <2>1
<1>5. Out(g, n) \notin g.neutral => chosen \in av[Out(g, n)]
  BY <1>2
<1>6. \A t \in Tensors(g) \ {Out(g, n)} : p.available[t] \subseteq av[t]
  OBVIOUS
<1> HIDE DEF av, lay
<1> QED
  BY <1>1, <1>2, <1>3, <1>4, <1>5, <1>6 DEF Plans

LEMMA VisitedIs ==
  ASSUME NEW g \in Graphs
  PROVE  /\ Visited(g, TRUE) \in [0 .. Len(g.nodes) -> Plans(g)]
         /\ Visited(g, TRUE)[0] = InitialLayouts(g, TRUE)
         /\ \A n \in Nodes(g) : Visited(g, TRUE)[n] = Visit(g, Visited(g, TRUE)[n - 1], n)
<1> DEFINE N == Len(g.nodes)
           G == [n \in 1 .. N |-> [p \in Plans(g) |-> Visit(g, p, n)]]
           Rule(f) == [n \in 0 .. N |->
                         IF n = 0 THEN InitialLayouts(g, TRUE) ELSE Visit(g, f[n - 1], n)]
<1>1. N \in Nat /\ Nodes(g) = 1 .. N
  BY GraphFacts
<1>2. InitialLayouts(g, TRUE) \in Plans(g)
  BY DEF InitialLayouts, Plans, Both
<1>3. /\ G \in [1 .. N -> [Plans(g) -> Plans(g)]]
      /\ \A n \in 1 .. N : \A p \in Plans(g) :
           G[n][p] = Visit(g, p, n) /\ Visit(g, p, n) \in Plans(g)
  BY <1>1, VisitFacts
<1> HIDE DEF G
<1>4. PICK f \in [0 .. N -> Plans(g)] : Unrolls(f, N, InitialLayouts(g, TRUE), G)
  <2> HIDE DEF N
  <2> QED
    BY <1>1, <1>2, <1>3, Recursion
<1>5. f = Rule(f)
  <2>1. ASSUME NEW n \in 0 .. N
        PROVE  f[n] = IF n = 0 THEN InitialLayouts(g, TRUE) ELSE Visit(g, f[n - 1], n)
    <3>1. CASE n = 0
      BY <1>4, <3>1 DEF Unrolls
    <3>2. CASE n # 0
      <4>1. n \in 1 .. N /\ n - 1 \in 0 .. N
        BY <1>1, <3>2
      <4> HIDE DEF N
      <4> QED
        BY <1>3, <1>4, <3>2, <4>1 DEF Unrolls
    <3> QED
      BY <3>1, <3>2
  <2> QED
    BY <2>1, <1>4
<1>6. Visited(g, TRUE) = CHOOSE h : h = Rule(h)
  BY DEF Visited
<1>7. Visited(g, TRUE) = Rule(Visited(g, TRUE))
  <2> HIDE DEF Rule
  <2> QED
    BY <1>5, <1>6
<1> DEFINE v == Visited(g, TRUE)
<1>8. v[0] = InitialLayouts(g, TRUE) /\ \A n \in 1 .. N : v[n] = Visit(g, v[n - 1], n)
  <2> HIDE DEF v
  <2>1. v = Rule(v)
    BY <1>7 DEF v
  <2>2. 0 \in 0 .. N /\ \A n \in 1 .. N : n \in 0 .. N /\ n # 0
    BY <1>1
  <2> HIDE DEF N
  <2> QED
    BY <2>1, <2>2
<1>9. v \in [0 .. N -> Plans(g)]
  <2> HIDE DEF v
  <2> DEFINE S == {n \in 0 .. N : v[n] \in Plans(g)}
  <2>1. 0 \in S
    <3>1. v[0] \in Plans(g)
      BY <1>2, <1>8, Zenon
    <3>2. 0 \in 0 .. N
      BY <1>1
    <3> QED
      BY <3>1, <3>2
  <2>2. ASSUME NEW n \in 0 .. N - 1, n \in S PROVE n + 1 \in S
    <3>1. n + 1 \in 1 .. N /\ n + 1 \in 0 .. N /\ (n + 1) - 1 = n
      BY <1>1
    <3> HIDE DEF N
    <3> QED
      BY <1>3, <1>8, <2>2, <3>1
  <2>3. 0 .. N \subseteq S
    <3> HIDE DEF S, N
    <3> QED
      BY <1>1, <2>1, <2>2, Induction
  <2>4. v = Rule(v)
    BY <1>7 DEF v
  <2> QED
    BY <2>3, <2>4
<1> QED
  BY <1>1, <1>8, <1>9

(* The plan gives every node a layout.                                     *)
LEMMA LayoutsAre ==
  ASSUME NEW g \in Graphs
  PROVE  LayoutPlan(g, TRUE).layout \in [Nodes(g) -> Both]
<1>1. Visited(g, TRUE)[Len(g.nodes)] \in Plans(g)
  <2>1. Len(g.nodes) \in 0 .. Len(g.nodes)
    BY GraphFacts
  <2>2. Visited(g, TRUE) \in [0 .. Len(g.nodes) -> Plans(g)]
    BY VisitedIs
  <2> QED
    BY <2>1, <2>2
<1>2. LayoutPlan(g, TRUE).layout = Visited(g, TRUE)[Len(g.nodes)].layout
  BY <1>1 DEF LayoutPlan, Plans
<1> QED
  BY <1>1, <1>2 DEF Plans

Kept(g, k) ==
  \A m \in 1 .. k :
    /\ Visited(g, TRUE)[k].layout[m] = Visited(g, TRUE)[m].layout[m]
    /\ Out(g, m) \notin g.neutral =>
         Visited(g, TRUE)[m].layout[m] \in Visited(g, TRUE)[k].available[Out(g, m)]
Starts(g, k) == InputCanStartNhwc(g) => "NHWC" \in Visited(g, TRUE)[k].available[g.input]

LEMMA VisitsKeep ==
  ASSUME NEW g \in Graphs
  PROVE  /\ \A k \in 0 .. Len(g.nodes) : Kept(g, k) /\ Starts(g, k)
         /\ \A n \in Nodes(g) :
              /\ LayoutPlan(g, TRUE).layout[n] = Visited(g, TRUE)[n].layout[n]
              /\ n - 1 \in 0 .. Len(g.nodes) /\ Visited(g, TRUE)[n - 1] \in Plans(g)
              /\ Visited(g, TRUE)[n] = Visit(g, Visited(g, TRUE)[n - 1], n)
<1> DEFINE N == Len(g.nodes)
           v == Visited(g, TRUE)
           S == {k \in 0 .. N : Kept(g, k) /\ Starts(g, k)}
<1>1. N \in Nat /\ Nodes(g) = 1 .. N /\ g.input \in Tensors(g)
  BY GraphFacts
<1>2. /\ v \in [0 .. N -> Plans(g)] /\ v[0] = InitialLayouts(g, TRUE)
      /\ \A k \in 1 .. N : v[k] = Visit(g, v[k - 1], k)
  BY <1>1, VisitedIs
<1> HIDE DEF N, v
<1>3. 0 \in S
  <2>1. 0 \in 0 .. N /\ 1 .. 0 = {}
    BY <1>1
  <2>2. Starts(g, 0)
    <3>1. InputCanStartNhwc(g) => "NHWC" \in v[0].available[g.input]
      BY <1>1, <1>2 DEF InitialLayouts
    <3> QED
      BY <3>1, Zenon DEF Starts, v
  <2>3. Kept(g, 0)
    BY <2>1 DEF Kept
  <2> QED
    BY <2>1, <2>2, <2>3
<1>4. ASSUME NEW k \in 0 .. N - 1, k \in S
      PROVE  k + 1 \in S
  <2> DEFINE j == k + 1
  <2>1. j \in Nodes(g) /\ j \in 1 .. N /\ v[k] \in Plans(g) /\ v[j] = Visit(g, v[k], j)
    <3>1. k + 1 \in 1 .. N /\ (k + 1) - 1 = k /\ k \in 0 .. N
      BY <1>1
    <3>2. v[k + 1] = Visit(g, v[(k + 1) - 1], k + 1)
      BY <1>2, <3>1
    <3> QED
      BY <1>1, <1>2, <3>1, <3>2
  <2>2. /\ \A m \in Nodes(g) \ {j} : v[j].layout[m] = v[k].layout[m]
        /\ Out(g, j) \notin g.neutral => v[j].layout[j] \in v[j].available[Out(g, j)]
        /\ \A u \in Tensors(g) \ {Out(g, j)} : v[k].available[u] \subseteq v[j].available[u]
    BY <2>1, VisitFacts
  <2>3. Kept(g, j)
    <3>1. SUFFICES ASSUME NEW m \in 1 .. j
                   PROVE  /\ v[j].layout[m] = v[m].layout[m]
                          /\ Out(g, m) \notin g.neutral =>
                               v[m].layout[m] \in v[j].available[Out(g, m)]
      BY DEF Kept, v
    <3>2. CASE m = j
      BY <2>2, <3>2
    <3>3. CASE m # j
      <4>1. m \in 1 .. k /\ m \in Nodes(g)
        BY <1>1, <2>1, <3>3
      <4>2. Out(g, m) \in Tensors(g) \ {Out(g, j)}
        BY <2>1, <3>3, <4>1, GraphFacts
      <4> QED
        BY <1>4, <2>2, <3>3, <4>1, <4>2 DEF Kept, v
    <3> QED
      BY <3>2, <3>3
  <2>4. Starts(g, j)
    <3>1. g.input \in Tensors(g) \ {Out(g, j)}
      BY <2>1, GraphFacts
    <3> QED
      BY <1>4, <2>2, <3>1 DEF Starts, v
  <2>5. j \in 0 .. N
    BY <1>1, <2>1
  <2> QED
    BY <2>3, <2>4, <2>5
<1>5. \A k \in 0 .. N : Kept(g, k) /\ Starts(g, k)
  <2>1. 0 .. N \subseteq S
    <3> HIDE DEF S
    <3> QED
      BY <1>1, <1>3, <1>4, Induction
  <2> QED
    BY <2>1
<1>6. \A m \in Nodes(g) : LayoutPlan(g, TRUE).layout[m] = v[m].layout[m]
  <2>1. N \in 0 .. N /\ v[N] \in Plans(g)
    BY <1>1, <1>2
  <2>2. LayoutPlan(g, TRUE).layout = v[N].layout
    BY <2>1 DEF LayoutPlan, Plans, N, v
  <2> QED
    BY <1>1, <1>5, <2>1, <2>2 DEF Kept, v
<1>7. \A n \in Nodes(g) : n - 1 \in 0 .. N /\ v[n - 1] \in Plans(g) /\ v[n] = Visit(g, v[n - 1], n)
  <2> SUFFICES ASSUME NEW n \in Nodes(g)
               PROVE  n - 1 \in 0 .. N /\ v[n - 1] \in Plans(g) /\ v[n] = Visit(g, v[n - 1], n)
    OBVIOUS
  <2>1. n \in 1 .. N /\ n - 1 \in 0 .. N
    BY <1>1
  <2> QED
    BY <1>2, <2>1
<1> QED
  BY <1>5, <1>6, <1>7 DEF N, v

(* What runs on NHWC maps could, and reads one or is a convolution over    *)
(* all channels.                                                           *)
LEMMA LayoutsAsk ==
  ASSUME NEW g \in Graphs, NEW n \in Nodes(g), LayoutPlan(g, TRUE).layout[n] = "NHWC"
  PROVE  NhwcCapable(g, n) /\ (ActivationInputs(g, n) # {} \/ DenseConv(g, n))
<1>1. PICK p \in Plans(g) : Visit(g, p, n).layout[n] = "NHWC"
  BY VisitsKeep
<1>2. ChooseNhwc(g, p, n)
  BY <1>1, VisitFacts
<1> QED
  BY <1>2 DEF ChooseNhwc

(* A node that could run on NHWC maps runs on NCHW ones only where all it  *)
(* reads is NCHW.                                                          *)
LEMMA LayoutsKept ==
  ASSUME NEW g \in Graphs, NEW n \in Nodes(g), NhwcCapable(g, n),
         LayoutPlan(g, TRUE).layout[n] = "NCHW",
         NEW t \in ActivationInputs(g, n)
  PROVE  /\ t = g.input => ~InputCanStartNhwc(g)
         /\ \A m \in Nodes(g) : Out(g, m) = t => LayoutPlan(g, TRUE).layout[m] = "NCHW"
<1> DEFINE N == Len(g.nodes)
           v == Visited(g, TRUE)
<1>1. N \in Nat /\ Nodes(g) = 1 .. N
  BY GraphFacts
<1>5. \A k \in 0 .. N : Kept(g, k) /\ Starts(g, k)
  BY VisitsKeep
<1>6. \A m \in Nodes(g) : LayoutPlan(g, TRUE).layout[m] = v[m].layout[m]
  BY VisitsKeep
<1>7. n - 1 \in 0 .. N /\ v[n - 1] \in Plans(g) /\ v[n] = Visit(g, v[n - 1], n)
  BY VisitsKeep
<1> HIDE DEF N, v
<1>8. "NHWC" \notin v[n - 1].available[t]
  <2>1. Visit(g, v[n - 1], n).layout[n] = "NCHW"
    BY <1>6, <1>7
  <2>2. ~ChooseNhwc(g, v[n - 1], n)
    BY <1>7, <2>1, VisitFacts
  <2> QED
    BY <2>2 DEF ChooseNhwc
<1>9. t = g.input => ~InputCanStartNhwc(g)
  BY <1>5, <1>7, <1>8 DEF Starts, v
<1>10. ASSUME NEW m \in Nodes(g), Out(g, m) = t
       PROVE  LayoutPlan(g, TRUE).layout[m] = "NCHW"
  <2>1. m \in 1 .. n - 1
    <3>1. t \in Ins(g, n) /\ t \notin g.const /\ t # g.input
      BY <1>10, GraphFacts DEF ActivationInputs
    <3>2. PICK l \in Nodes(g) : l < n /\ Out(g, l) = t
      BY <3>1, OperandFacts
    <3>3. m = l
      BY <1>10, <3>2, GraphFacts
    <3> QED
      BY <1>1, <3>2, <3>3
  <2>2. Out(g, m) \notin g.neutral
    BY <1>10 DEF ActivationInputs
  <2>3. v[m].layout[m] \in v[n - 1].available[t]
    BY <1>5, <1>7, <1>10, <2>1, <2>2 DEF Kept, v
  <2>4. LayoutPlan(g, TRUE).layout[m] \in Both
    BY LayoutsAre
  <2> QED
    BY <1>6, <1>8, <2>3, <2>4 DEF Both
<1> QED
  BY <1>9, <1>10

-----------------------------------------------------------------------------
(* Operations.                                                             *)

StaticInv ==
  /\ graph \in Graphs /\ WholeBlocks /\ layouts = LayoutPlan(graph, TRUE)
  /\ source = NoSource \/ (source.given = TRUE /\ \A n \in source.folded : TakesBn(n))

NhwcKinds == Convs \cup {"other", "unary", "binary", "reduce", "pool", "concat", "bn"}
Kinds == {"generic", "gelu"} \cup NhwcKinds
Operations ==
  [kind : Kinds, begin : Nat, count : Nat \ {0}, out : Nat, residual : Nat,
   bn : BOOLEAN, scaled : {"no", "blocks", "channels"}]
EndOf(o) == o.begin + o.count - 1

(* What an operation asks the other layout of.                             *)
AskedOf(o) ==
  IF o.kind = "gelu" THEN {ChainSource(graph, o.begin)}
  ELSE Ins(graph, o.begin) \cup (IF o.residual = None THEN {} ELSE {o.residual})

(* An operation stands for the nodes from begin to EndOf.  It asks for all *)
(* that they read from elsewhere; nobody else reads what they leave out.   *)
SpanRight(o) ==
  /\ o \in Operations /\ o.begin \in Nodes(graph) /\ EndOf(o) \in Nodes(graph)
  /\ o.out = OutOf(EndOf(o))
  /\ \A n \in Nodeset(o) \ {EndOf(o)} :
       Readers(graph, OutOf(n)) \subseteq Nodeset(o) /\ OutOf(n) \notin graph.outputs
  /\ Consumed(o) = AskedOf(o) \ graph.const
  /\ layouts.layout[EndOf(o)] = layouts.layout[o.begin]
  /\ o.kind \notin {"generic", "gelu"} => layouts.layout[o.begin] = "NHWC"
  /\ o.kind = "gelu" => FastGelu(o.begin) /\ o.count = 5 /\ o.residual = None
  /\ o.count > 1 => /\ o.kind \in Convs \cup {"gelu"}
                    /\ layouts.layout[o.begin] = "NHWC" => o.out \notin graph.neutral
OperationRight(o) == SpanRight(o) /\ WeightsRight(o)

LEMMA NotItsOwn ==
  ASSUME graph \in Graphs, NEW n \in Nodes(graph), NEW m \in Nodes(graph), n <= m
  PROVE  OutOf(m) \notin Ins(graph, n)
<1> SUFFICES ASSUME OutOf(m) \in Ins(graph, n) PROVE FALSE
  OBVIOUS
<1>1. OutOf(m) \notin graph.const \cup {graph.input}
  BY GraphFacts DEF OutOf
<1>2. PICK l \in Nodes(graph) : l < n /\ Out(graph, l) = OutOf(m)
  BY <1>1, OperandFacts
<1>3. l = m
  BY <1>2, GraphFacts DEF OutOf
<1> QED
  BY <1>2, <1>3, GraphFacts

(* A node of two operands reads no third.                                  *)
LEMMA TwoOperands ==
  ASSUME graph \in Graphs, NEW n \in Nodes(graph), Len(graph.nodes[n].ins) = 2,
         NEW a \in Ins(graph, n), NEW b \in Ins(graph, n), a # b
  PROVE  Ins(graph, n) = {a, b}
<1>1. Slots(graph, n) = {1, 2}
  BY OperandFacts
<1> QED
  BY <1>1 DEF Ins

LEMMA OneOperand ==
  ASSUME graph \in Graphs, NEW n \in Nodes(graph), Len(graph.nodes[n].ins) = 1,
         NEW a \in Ins(graph, n)
  PROVE  Ins(graph, n) = {a}
<1>1. Slots(graph, n) = {1}
  BY OperandFacts
<1> QED
  BY <1>1 DEF Ins

LEMMA ReadByOne ==
  ASSUME graph \in Graphs, NEW t, Consumers(t) = 1, NEW m \in Nodes(graph), t \in Ins(graph, m)
  PROVE  Readers(graph, t) = {m} /\ t \notin graph.outputs
<1>1. PICK n \in Nodes(graph) : \A l \in Nodes(graph) : \A r \in Slots(graph, l) :
        graph.nodes[l].ins[r] = t => l = n
  BY SoleReader DEF Consumers
<1>2. \A l \in Nodes(graph) : t \in Ins(graph, l) => l = n
  BY <1>1 DEF Ins
<1>3. Readers(graph, t) = {m}
  BY <1>2 DEF Readers
<1> QED
  BY <1>3, GraphFacts

LEMMA NhwcKindIs ==
  ASSUME StaticInv, NEW n \in Nodes(graph)
  PROVE  \/ NhwcKind(n) \in {"unary", "binary", "reduce", "pool", "concat", "bn", "generic"}
         \/ /\ Op(n) = "conv" /\ NhwcKind(n) = graph.nodes[n].form
            /\ NhwcKind(n) \in Convs \cup {"other"}
<1>1. CASE Op(n) \in Unary \cup Binary
  <2>1. Op(n) # "conv"
    BY <1>1 DEF Unary, Binary
  <2>2. NhwcKind(n) = ElementwiseKind(n)
    BY <1>1, <2>1, Zenon DEF NhwcKind
  <2> QED
    BY <2>2 DEF ElementwiseKind
<1>2. CASE Op(n) \notin Unary \cup Binary /\ Op(n) = "conv"
  <2>1. NhwcKind(n) = ConvKind(n)
    BY <1>2, Zenon DEF NhwcKind
  <2>2. graph.nodes[n].form \in Convs \cup {"other"}
    BY <1>2, GraphsWellFormed DEF StaticInv, Op
  <2> QED
    BY <1>2, <2>1, <2>2 DEF ConvKind
<1>3. CASE Op(n) \notin Unary \cup Binary /\ Op(n) # "conv"
  <2>1. NhwcKind(n) = MapKind(n)
    BY <1>3, Zenon DEF NhwcKind
  <2> QED
    BY <2>1 DEF MapKind
<1> QED
  BY <1>1, <1>2, <1>3

LEMMA KindFacts ==
  ASSUME StaticInv, NEW n \in Nodes(graph)
  PROVE  /\ Kind(n) \in Kinds
         /\ Kind(n) = "gelu" => FastGelu(n)
         /\ Kind(n) \in NhwcKinds => layouts.layout[n] = "NHWC"
         /\ Kind(n) \in Convs => Op(n) = "conv" /\ Kind(n) = graph.nodes[n].form
<1> DEFINE k == NhwcKind(n)
<1>1. \/ FastGelu(n) /\ Kind(n) = "gelu"
      \/ ~FastGelu(n) /\ layouts.layout[n] = "NHWC" /\ Kind(n) = k
      \/ ~FastGelu(n) /\ Kind(n) = "generic"
  BY Zenon DEF Kind
<1>2. \/ k \in {"unary", "binary", "reduce", "pool", "concat", "bn", "generic"}
      \/ Op(n) = "conv" /\ k = graph.nodes[n].form /\ k \in Convs \cup {"other"}
  BY NhwcKindIs
<1> HIDE DEF k
<1>3. CASE FastGelu(n) /\ Kind(n) = "gelu"
  BY <1>3 DEF Kinds, NhwcKinds, Convs
<1>4. CASE ~FastGelu(n) /\ layouts.layout[n] = "NHWC" /\ Kind(n) = k
  BY <1>2, <1>4 DEF Kinds, NhwcKinds, Convs
<1>5. CASE ~FastGelu(n) /\ Kind(n) = "generic"
  BY <1>5 DEF Kinds, NhwcKinds, Convs
<1> QED
  BY <1>1, <1>3, <1>4, <1>5, Zenon

(* What runs on NHWC maps and gives the shape it reads gives such a map.   *)
LEMMA MapAfter ==
  ASSUME StaticInv, NEW m \in Nodes(graph), Op(m) # "conv", layouts.layout[m] = "NHWC",
         NEW u \in All, \A t \in Ins(graph, m) \ graph.const : Same(graph, t, u)
  PROVE  u \notin graph.neutral
<1>1. graph \in Graphs /\ LayoutPlan(graph, TRUE).layout[m] = "NHWC"
  BY DEF StaticInv
<1>2. ~DenseConv(graph, m)
  BY DEF DenseConv, Op
<1>3. PICK t \in ActivationInputs(graph, m) : TRUE
  BY <1>1, <1>2, LayoutsAsk
<1>4. t \in Ins(graph, m) /\ t \notin graph.const /\ t \notin graph.neutral
  BY <1>3 DEF ActivationInputs
<1>5. t \in Tensors(graph)
  BY <1>1, <1>4, OperandFacts
<1> QED
  BY <1>1, <1>4, <1>5, ShapesAssumption DEF All

(* An operation of one node.                                               *)
LEMMA SingleRight ==
  ASSUME StaticInv, NEW n \in Nodes(graph), NEW kind \in {"generic"} \cup NhwcKinds,
         kind # "generic" => layouts.layout[n] = "NHWC",
         NEW o \in Operations, o.kind = kind, o.begin = n, o.count = 1,
         o.out = OutOf(n), o.residual = None
  PROVE  SpanRight(o)
<1>1. n \in Nat /\ EndOf(o) = n /\ Nodeset(o) = {n}
  BY GraphFacts DEF StaticInv, EndOf, Nodeset
<1>2. kind # "gelu"
  BY DEF NhwcKinds, Convs
<1>3. OutOf(n) \notin Ins(graph, n)
  BY <1>1, NotItsOwn DEF StaticInv
<1>4. Consumed(o) = Ins(graph, n) \ graph.const /\ AskedOf(o) = Ins(graph, n)
  BY <1>1, <1>2, <1>3 DEF Consumed, AskedOf
<1>5. ~(o.count > 1)
  OBVIOUS
<1> QED
  BY <1>1, <1>2, <1>4, <1>5 DEF SpanRight

LEMMA GeluSpan ==
  ASSUME StaticInv, NEW n \in Nodes(graph), FastGelu(n)
  PROVE  /\ n \in Nat /\ \A k \in 0 .. 4 : n + k \in Nodes(graph)
         /\ \A k \in 0 .. 3 : Readers(graph, OutOf(n + k)) = {n + k + 1}
                              /\ OutOf(n + k) \notin graph.outputs
         /\ ChainSource(graph, n) \in Ins(graph, n)
         /\ \A k \in 0 .. 4 : ChainSource(graph, n) # OutOf(n + k)
         /\ \A k \in 0 .. 4 : Ins(graph, n + k) \subseteq
              graph.const \cup {ChainSource(graph, n)} \cup {OutOf(n + i) : i \in 0 .. 3}
<1> DEFINE source0 == ChainSource(graph, n)
           Outs == {OutOf(n + i) : i \in 0 .. 3}
<1>1. /\ graph \in Graphs /\ MatchesGelu(graph, n)
      /\ \A k \in 0 .. 3 : Consumers(OutOf(n + k)) = 1
  BY Zenon DEF StaticInv, FastGelu, GeluAt
<1>2. n \in Nat /\ \A k \in 0 .. 4 : n + k \in Nodes(graph)
  <2>1. n + 4 <= Len(graph.nodes)
    BY <1>1, Zenon DEF MatchesGelu
  <2>2. Nodes(graph) = 1 .. Len(graph.nodes) /\ Len(graph.nodes) \in Nat
    BY <1>1, GraphFacts
  <2> QED
    BY <2>1, <2>2
<1>3. /\ \A k \in 0 .. 4 : Len(graph.nodes[n + k].ins) = IF k = 1 THEN 1 ELSE 2
      /\ \A k \in 0 .. 3 : OutOf(n + k) \in Ins(graph, n + k + 1)
      /\ source0 \in Ins(graph, n + 3)
      /\ graph.nodes[n].ins[2] \in graph.const
      /\ \A k \in {2, 4} : \E t \in Ins(graph, n + k) : t \in graph.const
  BY <1>1 DEF MatchesGelu, OutOf, ConstantScalar
<1>4. \A k \in 0 .. 3 : Readers(graph, OutOf(n + k)) = {n + k + 1}
                        /\ OutOf(n + k) \notin graph.outputs
  <2> SUFFICES ASSUME NEW k \in 0 .. 3
               PROVE  Readers(graph, OutOf(n + k)) = {n + k + 1} /\ OutOf(n + k) \notin graph.outputs
    OBVIOUS
  <2>1. n + k + 1 \in Nodes(graph)
    <3>1. k + 1 \in 0 .. 4 /\ n + (k + 1) = n + k + 1
      BY <1>2
    <3> QED
      BY <1>2, <3>1
  <2> QED
    BY <1>1, <1>3, <2>1, ReadByOne
<1>5. Len(graph.nodes[n].ins) = 2 /\ Slots(graph, n) = {1, 2}
  <2>1. Len(graph.nodes[n].ins) = 2
    <3>1. 0 \in 0 .. 4 /\ n + 0 = n
      BY <1>2
    <3> QED
      BY <1>3, <3>1
  <2> QED
    BY <1>1, <2>1, OperandFacts
<1>6. source0 \in Ins(graph, n) /\ Ins(graph, n) \subseteq graph.const \cup {source0}
  BY <1>3, <1>5 DEF ChainSource, Ins
<1>7. \A k \in 0 .. 4 : source0 # OutOf(n + k)
  <2> SUFFICES ASSUME NEW k \in 0 .. 4 PROVE source0 # OutOf(n + k)
    OBVIOUS
  <2>1. n + k \in Nodes(graph) /\ n <= n + k
    BY <1>2
  <2> QED
    BY <1>1, <1>6, <2>1, NotItsOwn
<1>8. \A k \in 0 .. 4 : OutOf(n + k) \notin graph.const
  BY <1>1, <1>2, GraphFacts DEF OutOf
<1> HIDE DEF source0
<1>9. Ins(graph, n + 1) \subseteq Outs
  <2>1. 1 \in 0 .. 4 /\ 0 \in 0 .. 3 /\ n + 0 = n /\ n + 0 + 1 = n + 1
    BY <1>2
  <2>2. n + 1 \in Nodes(graph) /\ Len(graph.nodes[n + 1].ins) = 1
    BY <1>2, <1>3, <2>1
  <2>3. OutOf(n + 0) \in Ins(graph, n + 1)
    BY <1>3, <2>1
  <2>4. Ins(graph, n + 1) = {OutOf(n + 0)}
    BY <1>1, <2>2, <2>3, OneOperand
  <2> QED
    BY <2>1, <2>4
<1>10. ASSUME NEW k \in {2, 4}
       PROVE  Ins(graph, n + k) \subseteq graph.const \cup Outs
  <2>1. k \in 0 .. 4 /\ k - 1 \in 0 .. 3 /\ n + (k - 1) + 1 = n + k /\ k - 1 \in 0 .. 4 /\ k # 1
    BY <1>2
  <2>2. n + k \in Nodes(graph) /\ Len(graph.nodes[n + k].ins) = 2
    BY <1>2, <1>3, <2>1
  <2>3. OutOf(n + (k - 1)) \in Ins(graph, n + k) /\ OutOf(n + (k - 1)) \notin graph.const
    BY <1>3, <1>8, <2>1
  <2>4. PICK t \in Ins(graph, n + k) : t \in graph.const
    BY <1>3
  <2>5. Ins(graph, n + k) = {OutOf(n + (k - 1)), t}
    BY <1>1, <2>2, <2>3, <2>4, TwoOperands
  <2> QED
    BY <2>1, <2>4, <2>5
<1>11. Ins(graph, n + 3) \subseteq {source0} \cup Outs
  <2>1. 3 \in 0 .. 4 /\ 2 \in 0 .. 3 /\ 2 \in 0 .. 4 /\ n + 2 + 1 = n + 3 /\ 3 # 1
    BY <1>2
  <2>2. n + 3 \in Nodes(graph) /\ Len(graph.nodes[n + 3].ins) = 2
    BY <1>2, <1>3, <2>1
  <2>3. OutOf(n + 2) \in Ins(graph, n + 3) /\ source0 # OutOf(n + 2)
    BY <1>3, <1>7, <2>1
  <2>4. Ins(graph, n + 3) = {OutOf(n + 2), source0}
    BY <1>1, <1>3, <2>2, <2>3, TwoOperands
  <2> QED
    BY <2>1, <2>4
<1>12. \A k \in 0 .. 4 : Ins(graph, n + k) \subseteq graph.const \cup {source0} \cup Outs
  <2> SUFFICES ASSUME NEW k \in 0 .. 4
               PROVE  Ins(graph, n + k) \subseteq graph.const \cup {source0} \cup Outs
    OBVIOUS
  <2>1. k = 0 \/ k = 1 \/ k = 3 \/ k \in {2, 4}
    OBVIOUS
  <2> HIDE DEF Outs
  <2>2. CASE k = 0
    <3>1. n + k = n
      BY <1>2, <2>2
    <3> QED
      BY <1>6, <3>1
  <2>3. CASE k = 1
    BY <1>9, <2>3
  <2>4. CASE k = 3
    BY <1>11, <2>4
  <2>5. CASE k \in {2, 4}
    BY <1>10, <2>5
  <2> QED
    BY <2>1, <2>2, <2>3, <2>4, <2>5
<1> QED
  BY <1>2, <1>4, <1>6, <1>7, <1>12 DEF source0

LEMMA GeluRight ==
  ASSUME StaticInv, NEW n \in Nodes(graph), FastGelu(n)
  PROVE  OperationRight(Bare(n, "gelu"))
<1> DEFINE o == Bare(n, "gelu")
           src == ChainSource(graph, n)
<1>1. /\ o.kind = "gelu" /\ o.begin = n /\ o.count = 5 /\ o.out = OutOf(n + 4)
      /\ o.residual = None /\ o.bn = FALSE /\ o.scaled = "no"
  BY DEF Bare
<1>2. /\ n \in Nat /\ \A k \in 0 .. 4 : n + k \in Nodes(graph)
      /\ \A k \in 0 .. 3 : Readers(graph, OutOf(n + k)) = {n + k + 1}
                           /\ OutOf(n + k) \notin graph.outputs
      /\ src \in Ins(graph, n)
      /\ \A k \in 0 .. 4 : src # OutOf(n + k)
      /\ \A k \in 0 .. 4 : Ins(graph, n + k) \subseteq
           graph.const \cup {src} \cup {OutOf(n + i) : i \in 0 .. 3}
  BY GeluSpan
<1>3. o \in Operations
  <2>1. OutOf(n + 4) \in Nat
    <3>1. n + 4 \in Nodes(graph)
      BY <1>2
    <3> QED
      BY <3>1, GraphFacts DEF OutOf, StaticInv
  <2> QED
    <3>1. o = [kind |-> "gelu", begin |-> n, count |-> 5, out |-> OutOf(n + 4),
               residual |-> 0, bn |-> FALSE, scaled |-> "no"]
      BY DEF Bare, None
    <3>2. n \in Nat /\ "gelu" \in Kinds
      BY <1>2 DEF Kinds
    <3> HIDE DEF o
    <3> QED
      BY <2>1, <3>1, <3>2 DEF Operations
<1>4. layouts.layout[n + 4] = layouts.layout[n]
  <2>1. 4 \in 1 .. 4 /\ \A k \in 1 .. 4 : SameLayout(n, n + k)
    BY DEF FastGelu
  <2> QED
    BY <2>1 DEF SameLayout
<1> HIDE DEF o, src
<1>5. EndOf(o) = n + 4 /\ Nodeset(o) = {n + k : k \in 0 .. 4} /\ n + 4 \in Nodes(graph)
  <2>1. EndOf(o) = n + 4 /\ Nodeset(o) = n .. n + 4
    BY <1>1, <1>2 DEF EndOf, Nodeset
  <2>2. n .. n + 4 = {n + k : k \in 0 .. 4}
    <3>1. ASSUME NEW m \in n .. n + 4 PROVE \E k \in 0 .. 4 : m = n + k
      <4>1. m - n \in 0 .. 4 /\ m = n + (m - n)
        BY <1>2
      <4> QED
        BY <4>1
    <3>2. \A k \in 0 .. 4 : n + k \in n .. n + 4
      BY <1>2
    <3> QED
      BY <3>1, <3>2
  <2> QED
    BY <1>2, <2>1, <2>2
<1>6. \A m \in Nodeset(o) \ {EndOf(o)} :
        Readers(graph, OutOf(m)) \subseteq Nodeset(o) /\ OutOf(m) \notin graph.outputs
  <2> SUFFICES ASSUME NEW m \in Nodeset(o), m # EndOf(o)
               PROVE  Readers(graph, OutOf(m)) \subseteq Nodeset(o) /\ OutOf(m) \notin graph.outputs
    OBVIOUS
  <2>1. PICK k \in 0 .. 4 : m = n + k
    BY <1>5
  <2>2. k \in 0 .. 3 /\ k + 1 \in 0 .. 4 /\ n + (k + 1) = n + k + 1
    BY <1>2, <1>5, <2>1
  <2>3. n + k + 1 \in Nodeset(o)
    BY <1>5, <2>2
  <2> QED
    BY <1>2, <2>1, <2>2, <2>3
<1>7. Consumed(o) = AskedOf(o) \ graph.const
  <2> DEFINE Outs == {OutOf(m) : m \in Nodeset(o)}
  <2>1. AskedOf(o) = {src}
    BY <1>1 DEF AskedOf, src
  <2>2. src \notin Outs
    BY <1>2, <1>5
  <2>3. \A m \in Nodeset(o) : Ins(graph, m) \subseteq graph.const \cup {src} \cup Outs
    <3>1. \A i \in 0 .. 3 : OutOf(n + i) \in Outs
      <4>1. \A i \in 0 .. 3 : i \in 0 .. 4
        OBVIOUS
      <4> QED
        BY <1>5, <4>1
    <3> QED
      BY <1>2, <1>5, <3>1
  <2>4. src \in UNION {Ins(graph, m) : m \in Nodeset(o)}
    <3>1. n \in Nodeset(o)
      BY <1>1, <1>2 DEF Nodeset
    <3> QED
      BY <1>2, <3>1
  <2>5. Consumed(o) = (UNION {Ins(graph, m) : m \in Nodeset(o)}) \ (graph.const \cup Outs)
    BY DEF Consumed
  <2> HIDE DEF Outs
  <2> QED
    BY <2>1, <2>2, <2>3, <2>4, <2>5
<1>8. layouts.layout[n] = "NHWC" => OutOf(n + 4) \notin graph.neutral
  <2> SUFFICES ASSUME layouts.layout[n] = "NHWC" PROVE OutOf(n + 4) \notin graph.neutral
    OBVIOUS
  <2>1. /\ MatchesGelu(graph, n) /\ graph \in Graphs
        /\ Same(graph, src, OutOf(n + 4))
    BY Zenon DEF FastGelu, GeluAt, StaticInv, src
  <2>2. Op(n) # "conv" /\ Slots(graph, n) = {1, 2} /\ graph.nodes[n].ins[2] \in graph.const
    <3>1. 0 \in 0 .. 4 /\ n + 0 = n /\ 0 # 1 /\ Chain[0 + 1] = "div"
      BY <1>2 DEF Chain
    <3>2. /\ graph.nodes[n].op = "div" /\ Len(graph.nodes[n].ins) = 2
          /\ graph.nodes[n].ins[2] \in graph.const
      BY <2>1, <3>1 DEF MatchesGelu, ConstantScalar
    <3> QED
      BY <2>1, <3>2, OperandFacts DEF Op
  <2>3. \A t \in Ins(graph, n) \ graph.const : t = src
    BY <2>2 DEF Ins, ChainSource, src
  <2>4. OutOf(n + 4) \in All
    BY <1>5, <2>1, GraphFacts DEF OutOf, All
  <2> QED
    BY <2>1, <2>2, <2>3, <2>4, MapAfter
<1>9. SpanRight(o)
  BY <1>1, <1>3, <1>4, <1>5, <1>6, <1>7, <1>8 DEF SpanRight
<1>10. WeightsRight(o)
  BY <1>1 DEF WeightsRight
<1> QED
  BY <1>9, <1>10 DEF OperationRight, o

(* An operation that takes in the node after it.                           *)
LEMMA Grows ==
  ASSUME StaticInv, NEW o \in Operations, SpanRight(o), o.kind \in Convs,
         NEW m \in Nodes(graph), m = EndOf(o) + 1, Consumers(o.out) = 1,
         o.out \in Ins(graph, m), layouts.layout[m] = layouts.layout[o.begin],
         NEW p \in Operations, p.kind = o.kind, p.begin = o.begin, p.count = o.count + 1,
         p.out = OutOf(m), OutOf(m) \notin graph.neutral,
         \/ /\ Ins(graph, m) \subseteq graph.const \cup {o.out}
            /\ p.residual = o.residual
         \/ /\ o.residual = None /\ p.residual \notin graph.const /\ p.residual # None
            /\ Ins(graph, m) = {o.out, p.residual} /\ o.count = 1 /\ p.residual # o.out
  PROVE  SpanRight(p)
<1> DEFINE Outs(q) == {OutOf(n) : n \in Nodeset(q)}
           All0(q) == UNION {Ins(graph, n) : n \in Nodeset(q)}
<1>1. graph \in Graphs /\ o.kind # "gelu" /\ o.kind # "generic"
  BY DEF StaticInv, Convs
<1>2. /\ EndOf(p) = m /\ Nodeset(p) = Nodeset(o) \cup {m} /\ EndOf(o) \in Nodeset(o)
      /\ Nodeset(o) \subseteq Nodes(graph) /\ \A n \in Nodeset(p) : n <= m
      /\ m \notin Nodeset(o) /\ Nodeset(o) = o.begin .. EndOf(o)
  <2>1. /\ Nodes(graph) = 1 .. Len(graph.nodes) /\ Len(graph.nodes) \in Nat
        /\ o.begin \in Nodes(graph) /\ EndOf(o) \in Nodes(graph) /\ o.count \in Nat \ {0}
    BY <1>1, GraphFacts DEF SpanRight, Operations
  <2>2. EndOf(p) = m /\ Nodeset(p) = o.begin .. m /\ Nodeset(o) = o.begin .. EndOf(o)
        /\ o.begin <= EndOf(o)
    BY <2>1 DEF EndOf, Nodeset
  <2>3. m = EndOf(o) + 1
    OBVIOUS
  <2> HIDE DEF Outs, All0
  <2> QED
    BY <2>1, <2>2, <2>3
<1>3. \A n \in Nodeset(p) : n \in Nodes(graph) /\ OutOf(m) \notin Ins(graph, n)
  BY <1>1, <1>2, NotItsOwn
<1>4. o.out = OutOf(EndOf(o)) /\ o.out \in Outs(o)
  BY <1>2 DEF SpanRight
<1>5. \A n \in Nodeset(p) \ {EndOf(p)} :
        Readers(graph, OutOf(n)) \subseteq Nodeset(p) /\ OutOf(n) \notin graph.outputs
  <2> SUFFICES ASSUME NEW n \in Nodeset(o)
               PROVE  Readers(graph, OutOf(n)) \subseteq Nodeset(p) /\ OutOf(n) \notin graph.outputs
    BY <1>2
  <2>1. CASE n = EndOf(o)
    BY <1>1, <1>2, <1>4, <2>1, ReadByOne
  <2>2. CASE n # EndOf(o)
    BY <1>2, <2>2 DEF SpanRight
  <2> QED
    BY <2>1, <2>2
<1>6. Consumed(p) = Consumed(o) \cup (Ins(graph, m) \ (graph.const \cup Outs(o)))
  <2>1. All0(p) = All0(o) \cup Ins(graph, m) /\ Outs(p) = Outs(o) \cup {OutOf(m)}
    BY <1>2
  <2>2. OutOf(m) \notin All0(p)
    BY <1>3
  <2>3. \A q : Consumed(q) = All0(q) \ (graph.const \cup Outs(q))
    BY DEF Consumed
  <2> HIDE DEF All0, Outs
  <2> QED
    BY <2>1, <2>2, <2>3
<1>7. Consumed(p) = AskedOf(p) \ graph.const
  <2>1. CASE Ins(graph, m) \subseteq graph.const \cup {o.out} /\ p.residual = o.residual
    <3>1. AskedOf(p) = AskedOf(o)
      BY <1>1, <2>1 DEF AskedOf
    <3>2. Consumed(o) = AskedOf(o) \ graph.const
      BY DEF SpanRight
    <3> QED
      BY <1>4, <1>6, <2>1, <3>1, <3>2
  <2>2. CASE /\ o.residual = None /\ p.residual \notin graph.const /\ p.residual # None
             /\ Ins(graph, m) = {o.out, p.residual} /\ o.count = 1 /\ p.residual # o.out
    <3>1. AskedOf(p) = AskedOf(o) \cup {p.residual}
      BY <1>1, <2>2 DEF AskedOf
    <3>2. Consumed(o) = AskedOf(o) \ graph.const
      BY DEF SpanRight
    <3>3. Outs(o) = {o.out}
      <4>1. Nodeset(o) = {EndOf(o)}
        BY <1>1, <2>2, GraphFacts DEF EndOf, Nodeset, SpanRight
      <4> QED
        BY <1>4, <4>1
    <3> HIDE DEF Outs
    <3> QED
      BY <1>6, <2>2, <3>1, <3>2, <3>3
  <2> QED
    BY <2>1, <2>2
<1>8. o.kind \notin {"generic", "gelu"} => layouts.layout[o.begin] = "NHWC"
  BY DEF SpanRight
<1> QED
  BY <1>1, <1>2, <1>5, <1>7, <1>8 DEF SpanRight

LEMMA GrownIs ==
  ASSUME StaticInv, NEW o \in Operations, NEW m \in Nodes(graph)
  PROVE  /\ Grown(o, m) \in Operations
         /\ Grown(o, m).kind = o.kind /\ Grown(o, m).begin = o.begin
         /\ Grown(o, m).count = o.count + 1 /\ Grown(o, m).out = OutOf(m)
         /\ Grown(o, m).residual = o.residual
         /\ Grown(o, m).bn = o.bn /\ Grown(o, m).scaled = o.scaled
<1> DEFINE q == [o EXCEPT !.count = @ + 1]
<1>1. OutOf(m) \in Nat /\ o.count + 1 \in Nat \ {0}
  BY GraphFacts DEF OutOf, StaticInv, Operations
<1>2. /\ q \in Operations /\ q.kind = o.kind /\ q.begin = o.begin /\ q.count = o.count + 1
      /\ q.residual = o.residual /\ q.bn = o.bn /\ q.scaled = o.scaled
  BY <1>1 DEF Operations
<1>3. Grown(o, m) = [q EXCEPT !.out = OutOf(m)]
  BY DEF Grown
<1> HIDE DEF q
<1> QED
  BY <1>1, <1>2, <1>3 DEF Operations

LEMMA ReluRight ==
  ASSUME StaticInv, NEW o, SpanRight(o), WeightsRight(o), o.kind \in Convs
  PROVE  OperationRight(WithRelu(o)) /\ WithRelu(o).begin = o.begin
<1> DEFINE r == o.begin + o.count
           p == Grown(o, r)
<1>1. CASE ~TakesRelu(o, r)
  BY <1>1 DEF WithRelu, OperationRight
<1>2. CASE TakesRelu(o, r)
  <2>1. WithRelu(o) = p
    BY <1>2 DEF WithRelu
  <2>2. graph \in Graphs /\ o \in Operations /\ o.begin \in Nodes(graph)
    BY DEF StaticInv, SpanRight
  <2>3. r \in Nodes(graph) /\ r = EndOf(o) + 1
    <3>1. r <= Len(graph.nodes) /\ o.begin \in Nat \ {0} /\ o.count \in Nat
      BY <1>2, <2>2, GraphFacts DEF TakesRelu, NodeCount, Operations
    <3>2. Nodes(graph) = 1 .. Len(graph.nodes) /\ Len(graph.nodes) \in Nat
      BY <2>2, GraphFacts
    <3> QED
      BY <3>1, <3>2 DEF EndOf
  <2> HIDE DEF r
  <2>4. /\ Len(graph.nodes[r].ins) = 1 /\ Consumers(o.out) = 1
        /\ graph.nodes[r].ins[1] = o.out /\ layouts.layout[r] = layouts.layout[o.begin]
        /\ Op(r) # "conv" /\ Same(graph, o.out, OutOf(r))
    BY <1>2 DEF TakesRelu, SameLayout
  <2>5. o.out \in Ins(graph, r)
    BY <2>2, <2>3, <2>4, OperandFacts DEF Ins
  <2>6. Ins(graph, r) \subseteq graph.const \cup {o.out}
    BY <2>2, <2>3, <2>4, <2>5, OneOperand
  <2>10. OutOf(r) \notin graph.neutral
    <3>1. layouts.layout[r] = "NHWC"
      BY <2>4 DEF SpanRight, Convs
    <3>2. OutOf(r) \in All
      BY <2>2, <2>3, GraphFacts DEF OutOf, All
    <3> QED
      BY <2>3, <2>4, <2>6, <3>1, <3>2, MapAfter
  <2>7. /\ p \in Operations /\ p.kind = o.kind /\ p.begin = o.begin /\ p.count = o.count + 1
        /\ p.out = OutOf(r) /\ p.residual = o.residual /\ p.bn = o.bn /\ p.scaled = o.scaled
    BY <2>2, <2>3, GrownIs
  <2> HIDE DEF p
  <2>8. SpanRight(p)
    BY <2>2, <2>3, <2>4, <2>5, <2>6, <2>7, <2>10, Grows
  <2>9. WeightsRight(p)
    BY <2>7 DEF WeightsRight
  <2> QED
    BY <2>1, <2>7, <2>8, <2>9 DEF OperationRight
<1> QED
  BY <1>1, <1>2

(* A normalised convolution's weights are scaled whole.                    *)
LEMMA ScaledWhole ==
  ASSUME StaticInv, NEW n \in Nodes(graph), Kind(n) \in Convs, TakesBn(n)
  PROVE  ScaledBy(n) = "channels"
<1>1. Op(n) = "conv" /\ graph.nodes[n].form \in Convs
  BY KindFacts
<1>2. n + 1 \in Nodes(graph) /\ graph.nodes[n + 1].op = "bn"
  BY GraphFacts DEF TakesBn, StaticInv, NodeCount, Op
<1> QED
  BY <1>1, <1>2 DEF ScaledBy, StaticInv, WholeBlocks, Convs, WithEpilogue, Op

LEMMA ConvRight ==
  ASSUME StaticInv, NEW n \in Nodes(graph), Kind(n) \in Convs, NEW scalable \in BOOLEAN
  PROVE  OperationRight(ConvOperation(n, scalable)) /\ ConvOperation(n, scalable).begin = n
<1> DEFINE f == graph.nodes[n].form
           sc == IF n \in source.folded THEN ScaledBy(n) ELSE "no"
           bare == [Bare(n, f) EXCEPT !.scaled = sc]
           m == n + 1
           normal == [Grown(bare, m) EXCEPT !.bn = TRUE,
                        !.scaled = IF source.given THEN @ ELSE ScaledBy(n)]
           sum == [Grown(bare, m) EXCEPT !.residual = Other(m, bare.out)]
           inner == IF FoldsBn(n, scalable) THEN normal
                    ELSE IF TakesAdd(bare, m) THEN sum ELSE bare
<1>1. ConvOperation(n, scalable) = WithRelu(inner)
  BY DEF ConvOperation
<1>2. /\ graph \in Graphs /\ Op(n) = "conv" /\ f \in Convs /\ layouts.layout[n] = "NHWC"
      /\ n \in Nat /\ OutOf(n) \in Nat /\ n + 1 \in Nat
      /\ Nodes(graph) = 1 .. Len(graph.nodes) /\ Len(graph.nodes) \in Nat
  <2>1. f \in Convs /\ Op(n) = "conv" /\ layouts.layout[n] = "NHWC"
    BY KindFacts DEF NhwcKinds
  <2>2. graph \in Graphs
    BY DEF StaticInv
  <2>3. OutOf(n) \in Nat
    BY <2>2, GraphFacts DEF OutOf
  <2>4. Nodes(graph) = 1 .. Len(graph.nodes) /\ Len(graph.nodes) \in Nat
    BY <2>2, GraphFacts
  <2>5. n \in Nat /\ n + 1 \in Nat
    BY <2>4
  <2> QED
    BY <2>1, <2>2, <2>3, <2>4, <2>5
<1>3. /\ sc \in {"no", "blocks", "channels"}
      /\ sc = IF n \in source.folded THEN ScaledBy(n) ELSE "no"
  BY DEF ScaledBy
<1> HIDE DEF f, sc
<1>4. Bare(n, f) = [kind |-> f, begin |-> n, count |-> 1, out |-> OutOf(n), residual |-> 0,
                    bn |-> FALSE, scaled |-> "no"]
  <2>1. f # "gelu"
    BY <1>2 DEF Convs
  <2> QED
    BY <2>1, Zenon DEF Bare, None
<1>5. /\ bare \in Operations /\ bare.kind = f /\ bare.begin = n /\ bare.count = 1
      /\ bare.out = OutOf(n) /\ bare.residual = None /\ bare.bn = FALSE /\ bare.scaled = sc
  <2> DEFINE b == Bare(n, f)
  <2>1. f \in Kinds
    BY <1>2 DEF Kinds, NhwcKinds
  <2>2. /\ b \in Operations /\ b.kind = f /\ b.begin = n /\ b.count = 1
        /\ b.out = OutOf(n) /\ b.residual = None /\ b.bn = FALSE
    BY <1>2, <1>4, <2>1 DEF Operations, None
  <2>3. bare = [b EXCEPT !.scaled = sc]
    OBVIOUS
  <2> HIDE DEF b, bare
  <2> QED
    BY <1>3, <2>2, <2>3 DEF Operations
<1> HIDE DEF bare
<1>6. SpanRight(bare) /\ EndOf(bare) = n
  <2>1. f \in {"generic"} \cup NhwcKinds
    BY <1>2 DEF NhwcKinds
  <2>2. SpanRight(bare)
    BY <1>2, <1>5, <2>1, SingleRight
  <2>3. EndOf(bare) = n
    BY <1>2, <1>5 DEF EndOf
  <2> QED
    BY <2>2, <2>3
<1>7. n \in source.folded => source.given /\ TakesBn(n)
  BY DEF StaticInv, NoSource
<1> HIDE DEF m
<1>8. CASE FoldsBn(n, scalable)
  <2>1. TakesBn(n) /\ ScaledBy(n) = "channels"
    BY <1>8, ScaledWhole DEF FoldsBn
  <2>2. m \in Nodes(graph) /\ m = EndOf(bare) + 1
    BY <1>2, <1>6, <2>1 DEF TakesBn, NodeCount, m
  <2>3. /\ Consumers(bare.out) = 1 /\ graph.nodes[m].ins[1] = bare.out
        /\ layouts.layout[m] = layouts.layout[bare.begin]
        /\ \A s \in Slots(graph, m) \ {1} : graph.nodes[m].ins[s] \in graph.const
        /\ Op(m) # "conv" /\ Same(graph, bare.out, OutOf(m))
    BY <1>5, <2>1 DEF TakesBn, SameLayout, m
  <2>4. bare.out \in Ins(graph, m) /\ Ins(graph, m) \subseteq graph.const \cup {bare.out}
    BY <1>2, <2>2, <2>3, OperandFacts DEF Ins
  <2>5. /\ normal \in Operations /\ normal.kind = f /\ normal.begin = n
        /\ normal.count = bare.count + 1 /\ normal.out = OutOf(m)
        /\ normal.residual = bare.residual /\ normal.bn = TRUE
        /\ normal.scaled = IF source.given THEN sc ELSE "channels"
    <3> DEFINE g == Grown(bare, m)
               x == IF source.given THEN g.scaled ELSE ScaledBy(n)
               h == [g EXCEPT !.bn = TRUE]
    <3>1. /\ g \in Operations /\ g.kind = f /\ g.begin = n /\ g.count = bare.count + 1
          /\ g.out = OutOf(m) /\ g.residual = bare.residual /\ g.scaled = sc
      BY <1>5, <2>2, GrownIs
    <3>2. normal = [h EXCEPT !.scaled = x]
      OBVIOUS
    <3>3. x = (IF source.given THEN sc ELSE "channels")
      BY <2>1, <3>1
    <3>4. x \in {"no", "blocks", "channels"}
      BY <1>3, <3>3
    <3> HIDE DEF g, x
    <3>5. /\ h \in Operations /\ h.kind = f /\ h.begin = n /\ h.count = bare.count + 1
          /\ h.out = OutOf(m) /\ h.residual = bare.residual /\ h.bn = TRUE
      BY <3>1 DEF Operations
    <3> HIDE DEF h
    <3> QED
      BY <3>2, <3>3, <3>4, <3>5 DEF Operations
  <2>6. source.given => n \in source.folded
    BY <1>8 DEF FoldsBn
  <2>10. OutOf(m) \notin graph.neutral
    <3>1. OutOf(m) \in All
      BY <1>2, <2>2, GraphFacts DEF OutOf, All
    <3> QED
      BY <1>2, <1>5, <2>2, <2>3, <2>4, <3>1, MapAfter
  <2> HIDE DEF normal
  <2>7. SpanRight(normal)
    BY <1>2, <1>5, <1>6, <2>2, <2>3, <2>4, <2>5, <2>10, Grows
  <2>8. WeightsRight(normal)
    BY <1>3, <2>1, <2>5, <2>6 DEF WeightsRight
  <2>9. inner = normal
    BY <1>8
  <2> HIDE DEF inner
  <2> QED
    BY <1>1, <1>2, <2>5, <2>7, <2>8, <2>9, ReluRight
<1>9. CASE ~FoldsBn(n, scalable)
  <2>1. sc = "no"
    BY <1>3, <1>7, <1>9 DEF FoldsBn
  <2>2. WeightsRight(bare)
    BY <1>5, <2>1 DEF WeightsRight
  <2>3. CASE ~TakesAdd(bare, m)
    <3>1. inner = bare
      BY <1>9, <2>3
    <3> HIDE DEF inner
    <3> QED
      BY <1>1, <1>2, <1>5, <1>6, <2>2, <3>1, ReluRight
  <2>4. CASE TakesAdd(bare, m)
    <3> DEFINE res == Other(m, bare.out)
    <3>1. m \in Nodes(graph) /\ m = EndOf(bare) + 1
      BY <1>2, <1>6, <2>4 DEF TakesAdd, NodeCount, m
    <3>2. /\ Len(graph.nodes[m].ins) = 2 /\ Consumers(bare.out) = 1
          /\ bare.out \in Ins(graph, m) /\ res \notin graph.const
          /\ layouts.layout[m] = layouts.layout[bare.begin]
          /\ Op(m) # "conv" /\ Same(graph, bare.out, res) /\ Same(graph, bare.out, OutOf(m))
      BY <2>4 DEF TakesAdd, SameLayout
    <3>3. res \in Ins(graph, m) /\ res # bare.out /\ res \in Nat \ {0}
      <4>1. Slots(graph, m) = {1, 2}
        BY <1>2, <3>1, <3>2, OperandFacts
      <4>2. UseCount(graph, bare.out) = 1
        BY <3>2 DEF Consumers
      <4>3. ~(graph.nodes[m].ins[1] = bare.out /\ graph.nodes[m].ins[2] = bare.out)
        <5>1. PICK k \in Nodes(graph) : \E s \in Slots(graph, k) :
                /\ graph.nodes[k].ins[s] = bare.out
                /\ \A l \in Nodes(graph) : \A r \in Slots(graph, l) :
                     graph.nodes[l].ins[r] = bare.out => l = k /\ r = s
          BY <1>2, <4>2, SoleReader
        <5>2. PICK s \in Slots(graph, k) : \A r \in Slots(graph, m) :
                graph.nodes[m].ins[r] = bare.out => r = s
          BY <3>1, <5>1
        <5>3. 1 \in Slots(graph, m) /\ 2 \in Slots(graph, m) /\ 1 # 2
          BY <4>1
        <5> QED
          BY <5>2, <5>3
      <4>4. graph.nodes[m].ins[1] = bare.out \/ graph.nodes[m].ins[2] = bare.out
        BY <3>2, <4>1 DEF Ins
      <4>5. res \in Ins(graph, m) /\ res # bare.out
        BY <4>1, <4>3, <4>4 DEF Ins, Other
      <4> QED
        BY <1>2, <3>1, <4>5, OperandFacts, GraphFacts
    <3>4. Ins(graph, m) = {bare.out, res}
      BY <1>2, <3>1, <3>2, <3>3, TwoOperands
    <3> HIDE DEF res
    <3>9. OutOf(m) \notin graph.neutral
      <4>1. OutOf(m) \in All
        BY <1>2, <3>1, GraphFacts DEF OutOf, All
      <4>2. \A t \in Ins(graph, m) \ graph.const : Same(graph, t, OutOf(m))
        BY <3>2, <3>4 DEF Same
      <4> QED
        BY <1>2, <1>5, <3>1, <3>2, <4>1, <4>2, MapAfter
    <3>5. /\ sum \in Operations /\ sum.kind = f /\ sum.begin = n /\ sum.count = bare.count + 1
          /\ sum.out = OutOf(m) /\ sum.residual = res /\ sum.bn = FALSE /\ sum.scaled = "no"
      BY <1>5, <2>1, <3>1, <3>3, GrownIs DEF Operations, res
    <3> HIDE DEF sum
    <3>6. SpanRight(sum)
      BY <1>2, <1>5, <1>6, <3>1, <3>2, <3>3, <3>4, <3>5, <3>9, Grows DEF None
    <3>7. WeightsRight(sum)
      BY <3>5 DEF WeightsRight
    <3>8. inner = sum
      BY <1>9, <2>4
    <3> HIDE DEF inner
    <3> QED
      BY <1>1, <1>2, <3>5, <3>6, <3>7, <3>8, ReluRight
  <2> QED
    BY <2>3, <2>4
<1> QED
  BY <1>8, <1>9

-----------------------------------------------------------------------------
(* The plan that has been made.                                            *)

(* The operations stand for the nodes before n, in their order.            *)
Ordered(os, n) ==
  /\ os \in Seq(Operations) /\ n \in Nat \ {0}
  /\ \A i \in DOMAIN os : OperationRight(os[i]) /\ EndOf(os[i]) < n
  /\ \A i, j \in DOMAIN os : i < j => EndOf(os[i]) < os[j].begin
  /\ \A m \in 1 .. n - 1 : \E i \in DOMAIN os : m \in Nodeset(os[i])
CompileInv ==
  Ordered(ops, node) /\ (pc \notin {"compile", "rejected"} => node > NodeCount)

Occupied == [offset : Nat, bytes : Nat, last : Nat]
PlaceInv ==
  /\ place \in [All -> Nat \cup {-1}] /\ slots \in Seq(Occupied)
  /\ pc = "compile" => \A t \in All : place[t] = -1
  /\ pc \in {"place", "ready", "run", "done"} =>
       \A t \in All : place[t] # -1 => NeedsNhwc(t)
  /\ pc \in {"ready", "run", "done"} => Valid /\ Waiting = {}

PlanInv == StaticInv /\ CompileInv /\ PlaceInv

LEMMA Emits ==
  ASSUME StaticInv, NEW os, NEW n, Ordered(os, n),
         NEW o, OperationRight(o), o.begin = n
  PROVE  Ordered(Append(os, o), n + o.count)
<1> DEFINE as == Append(os, o)
           m == n + o.count
<1>1. /\ o \in Operations /\ os \in Seq(Operations) /\ n \in Nat \ {0} /\ o.count \in Nat \ {0}
      /\ EndOf(o) = m - 1 /\ Nodeset(o) = n .. m - 1 /\ m \in Nat \ {0} /\ n < m
  <2>1. o \in Operations /\ os \in Seq(Operations) /\ n \in Nat \ {0}
    BY DEF OperationRight, SpanRight, Ordered
  <2>2. o.count \in Nat \ {0}
    BY <2>1 DEF Operations
  <2> QED
    BY <2>1, <2>2 DEF EndOf, Nodeset
<1>2. /\ as \in Seq(Operations) /\ Len(os) \in Nat /\ Len(as) = Len(os) + 1
      /\ DOMAIN as = DOMAIN os \cup {Len(as)} /\ as[Len(as)] = o
      /\ \A i \in DOMAIN os : as[i] = os[i] /\ i < Len(as)
      /\ Len(as) \notin DOMAIN os /\ DOMAIN as = 1 .. Len(as)
  <2>1. /\ as \in Seq(Operations) /\ Len(as) = Len(os) + 1 /\ as[Len(os) + 1] = o
        /\ \A i \in 1 .. Len(os) : as[i] = os[i]
    BY <1>1, AppendProperties
  <2>2. Len(os) \in Nat /\ DOMAIN os = 1 .. Len(os) /\ DOMAIN as = 1 .. Len(as)
    BY <1>1, <2>1, LenProperties
  <2> DEFINE k == Len(os)
  <2>3. k \in Nat /\ 1 .. k + 1 = 1 .. k \cup {k + 1} /\ k + 1 \notin 1 .. k
        /\ \A i \in 1 .. k : i < k + 1
    BY <2>2
  <2> HIDE DEF as, k
  <2>4. as \in Seq(Operations) /\ Len(as) = k + 1 /\ as[k + 1] = o /\ Len(os) = k
        /\ (\A i \in 1 .. k : as[i] = os[i]) /\ DOMAIN os = 1 .. k /\ DOMAIN as = 1 .. k + 1
    BY <2>1, <2>2 DEF k
  <2> QED
    BY <2>3, <2>4
<1> HIDE DEF as, m
<1>3. ASSUME NEW i \in DOMAIN as
      PROVE  OperationRight(as[i]) /\ EndOf(as[i]) < m
  <2>1. CASE i = Len(as)
    <3>1. as[i] = o
      BY <1>2, <2>1
    <3>2. EndOf(o) < m
      BY <1>1
    <3> QED
      BY <3>1, <3>2
  <2>2. CASE i # Len(as)
    <3>1. i \in DOMAIN os /\ as[i] = os[i]
      BY <1>2, <2>2
    <3>2. OperationRight(os[i]) /\ EndOf(os[i]) < n
      BY <3>1 DEF Ordered
    <3>3. EndOf(os[i]) \in Nat
      BY <3>2, GraphFacts DEF OperationRight, SpanRight, StaticInv
    <3> QED
      BY <1>1, <3>1, <3>2, <3>3
  <2> QED
    BY <2>1, <2>2
<1>4. ASSUME NEW i \in DOMAIN as, NEW j \in DOMAIN as, i < j
      PROVE  EndOf(as[i]) < as[j].begin
  <2>1. i \in DOMAIN os /\ as[i] = os[i]
    <3>1. i # Len(as)
      BY <1>2, <1>4
    <3> QED
      BY <1>2, <3>1
  <2>2. CASE j = Len(as)
    BY <1>2, <2>1, <2>2 DEF Ordered
  <2>3. CASE j # Len(as)
    <3>1. j \in DOMAIN os /\ as[j] = os[j]
      BY <1>2, <2>3
    <3> QED
      BY <1>4, <2>1, <3>1 DEF Ordered
  <2> QED
    BY <2>2, <2>3
<1>5. ASSUME NEW l \in 1 .. m - 1
      PROVE  \E i \in DOMAIN as : l \in Nodeset(as[i])
  <2>1. l \in 1 .. n - 1 \/ l \in n .. m - 1
    BY <1>1
  <2>2. CASE l \in 1 .. n - 1
    <3>1. PICK i \in DOMAIN os : l \in Nodeset(os[i])
      BY <2>2 DEF Ordered
    <3> QED
      BY <1>2, <3>1
  <2>3. CASE l \in n .. m - 1
    BY <1>1, <1>2, <2>3
  <2> QED
    BY <2>1, <2>2, <2>3
<1> QED
  BY <1>1, <1>2, <1>3, <1>4, <1>5 DEF Ordered, as, m

LEMMA SameOperations ==
  ASSUME UNCHANGED <<graph, layouts>>
  PROVE  /\ \A o : OperationRight(o)' <=> OperationRight(o)
         /\ \A os, n : Ordered(os, n)' <=> Ordered(os, n)
<1>1. \A n : FastGelu(n)' <=> FastGelu(n)
  BY DEF FastGelu, OutOf, Consumers, SameLayout
<1>2. \A o : Consumed(o)' = Consumed(o) /\ AskedOf(o)' = AskedOf(o)
  BY DEF Consumed, AskedOf, OutOf
<1>3. \A o : SpanRight(o)' <=> SpanRight(o)
  BY <1>1, <1>2 DEF SpanRight, OutOf
<1>4. \A o : OperationRight(o)' <=> OperationRight(o)
  BY <1>3 DEF OperationRight
<1> QED
  BY <1>4 DEF Ordered

LEMMA StaticStep ==
  ASSUME StaticInv, UNCHANGED <<graph, layouts, source>>
  PROVE  StaticInv'
BY DEF StaticInv, WholeBlocks, TakesBn, SameLayout, OutOf, Consumers, Op, NodeCount

LEMMA CompileStep ==
  ASSUME PlanInv, CompileConv \/ CompileOther \/ CompileGeneric
  PROVE  PlanInv'
<1>1. /\ StaticInv /\ Ordered(ops, node) /\ pc = "compile"
      /\ node \in Nodes(graph) /\ UNCHANGED <<graph, layouts, source, pc, place, slots>>
  <2>1. /\ StaticInv /\ Ordered(ops, node) /\ pc = "compile" /\ node <= NodeCount
        /\ UNCHANGED <<graph, layouts, source, pc, place, slots>>
    BY DEF PlanInv, CompileInv, CompileConv, CompileOther, CompileGeneric, Emit
  <2>2. node \in Nat \ {0} /\ Nodes(graph) = 1 .. Len(graph.nodes) /\ Len(graph.nodes) \in Nat
    BY <2>1, GraphFacts DEF Ordered, StaticInv
  <2> QED
    BY <2>1, <2>2 DEF NodeCount
<1>2. PICK o : /\ OperationRight(o) /\ o.begin = node
               /\ ops' = Append(ops, o) /\ node' = node + o.count
  <2>1. CASE CompileConv
    <3>1. PICK scalable \in BOOLEAN : Emit(ConvOperation(node, scalable))
      BY <2>1 DEF CompileConv
    <3>2. Kind(node) \in Convs
      BY <2>1 DEF CompileConv
    <3> DEFINE o == ConvOperation(node, scalable)
    <3>3. OperationRight(o) /\ o.begin = node
      BY <1>1, <3>2, ConvRight
    <3>4. ops' = Append(ops, o) /\ node' = node + o.count
      BY <3>1 DEF Emit
    <3> HIDE DEF o
    <3> QED
      BY <3>3, <3>4
  <2>2. CASE CompileOther \/ CompileGeneric
    <3>1. PICK kind : /\ Emit(Bare(node, kind))
                      /\ kind = "generic" \/ (kind = Kind(node) /\ kind \notin Convs)
      BY <2>2 DEF CompileOther, CompileGeneric
    <3> DEFINE o == Bare(node, kind)
    <3>2. OperationRight(o) /\ o.begin = node
      <4>1. CASE kind = "gelu"
        <5>1. FastGelu(node)
          BY <1>1, <3>1, <4>1, KindFacts
        <5> QED
          BY <1>1, <4>1, <5>1, GeluRight DEF Bare
      <4>2. CASE kind # "gelu"
        <5>1. o = [kind |-> kind, begin |-> node, count |-> 1, out |-> OutOf(node),
                   residual |-> None, bn |-> FALSE, scaled |-> "no"]
          BY <4>2, Zenon DEF Bare
        <5>2. /\ kind \in {"generic"} \cup NhwcKinds /\ kind \in Kinds
              /\ kind # "generic" => layouts.layout[node] = "NHWC"
          <6>1. CASE kind = "generic"
            BY <6>1 DEF Kinds
          <6>2. CASE kind # "generic"
            BY <1>1, <3>1, <4>2, <6>2, KindFacts DEF Kinds
          <6> QED
            BY <6>1, <6>2
        <5>3. node \in Nat /\ OutOf(node) \in Nat
          BY <1>1, GraphFacts DEF StaticInv, OutOf
        <5> HIDE DEF o
        <5>4. o \in Operations
          BY <5>1, <5>2, <5>3 DEF Operations, None
        <5>5. SpanRight(o)
          BY <1>1, <5>1, <5>2, <5>4, SingleRight
        <5>6. WeightsRight(o)
          BY <5>1 DEF WeightsRight
        <5> QED
          BY <5>1, <5>5, <5>6 DEF OperationRight
      <4> QED
        BY <4>1, <4>2
    <3>3. ops' = Append(ops, o) /\ node' = node + o.count
      BY <3>1 DEF Emit
    <3> HIDE DEF o
    <3> QED
      BY <3>2, <3>3
  <2> QED
    BY <2>1, <2>2
<1>3. PICK os, n : os = ops' /\ n = node'
  OBVIOUS
<1>4. Ordered(os, n)
  BY <1>1, <1>2, <1>3, Emits
<1>5. Ordered(os, n)'
  BY <1>1, <1>4, SameOperations
<1>6. CompileInv'
  BY <1>1, <1>3, <1>5 DEF CompileInv
<1>7. PlaceInv'
  BY <1>1 DEF PlanInv, PlaceInv, All
<1> QED
  BY <1>1, <1>6, <1>7, StaticStep DEF PlanInv

LEMMA SamePlan ==
  ASSUME UNCHANGED <<graph, layouts, ops>>
  PROVE  /\ \A t : NeedsNhwc(t)' <=> NeedsNhwc(t)
         /\ \A t : Life(t)' = Life(t) /\ Birth(t)' = Birth(t) /\ LastUse(t)' = LastUse(t)
<1>1. Elided' = Elided
  BY DEF Elided, OutOf
<1>2. \A t : NeedsNhwc(t)' <=> NeedsNhwc(t)
  BY <1>1 DEF NeedsNhwc
<1>3. \A n : PhysicalOf(n)' = PhysicalOf(n)
  BY DEF PhysicalOf, NodeCount
<1>4. \A t : Birth(t)' = Birth(t) /\ LastUse(t)' = LastUse(t)
  BY DEF Birth, LastUse, NodeCount
<1> QED
  BY <1>2, <1>3, <1>4 DEF Life

LEMMA PlanInit ==
  ASSUME Init, WholeBlocks
  PROVE  PlanInv
<1>1. StaticInv
  <2>1. graph \in Graphs /\ layouts = LayoutPlan(graph, TRUE) /\ source \in Sources
    BY DEF Init
  <2>2. ASSUME source # NoSource
        PROVE  source.given = TRUE /\ \A n \in source.folded : TakesBn(n)
    BY <2>1, <2>2 DEF Sources
  <2> QED
    BY <2>1, <2>2 DEF StaticInv
<1>2. CompileInv
  <2>1. ops = <<>> /\ node = 1 /\ pc = "compile"
    BY DEF Init
  <2>2. Ordered(<<>>, 1)
    <3>1. <<>> \in Seq(Operations) /\ DOMAIN <<>> = {} /\ 1 .. 1 - 1 = {}
      BY EmptySeq
    <3> QED
      BY <3>1 DEF Ordered
  <2> QED
    BY <2>1, <2>2 DEF CompileInv
<1>3. PlaceInv
  BY EmptySeq DEF Init, PlaceInv
<1> QED
  BY <1>1, <1>2, <1>3 DEF PlanInv

-----------------------------------------------------------------------------
(* Nodes, operations and lifetimes.                                        *)

Compiled == StaticInv /\ Ordered(ops, node) /\ node > NodeCount

LEMMA OperationFacts ==
  ASSUME Compiled
  PROVE  /\ graph \in Graphs /\ Len(ops) \in Nat /\ DOMAIN ops = 1 .. Len(ops)
         /\ Len(ops) \in DOMAIN ops
         /\ NodeCount \in Nat /\ Nodes(graph) = 1 .. NodeCount
         /\ \A i \in DOMAIN ops :
              /\ OperationRight(ops[i]) /\ ops[i] \in Operations
              /\ ops[i].begin \in Nodes(graph) /\ EndOf(ops[i]) \in Nodes(graph)
              /\ ops[i].begin <= EndOf(ops[i]) /\ Nodeset(ops[i]) = ops[i].begin .. EndOf(ops[i])
              /\ ops[i].out = OutOf(EndOf(ops[i]))
         /\ \A i, j \in DOMAIN ops : i < j => EndOf(ops[i]) < ops[j].begin
         /\ \A n \in Nodes(graph) : \E i \in DOMAIN ops : n \in Nodeset(ops[i])
<1>1. /\ graph \in Graphs /\ ops \in Seq(Operations) /\ node \in Nat \ {0} /\ node > NodeCount
  BY DEF Compiled, StaticInv, Ordered
<1>2. Len(ops) \in Nat /\ DOMAIN ops = 1 .. Len(ops)
  BY <1>1, LenProperties
<1>3. NodeCount \in Nat /\ Nodes(graph) = 1 .. NodeCount
  BY <1>1, GraphFacts DEF NodeCount
<1>4. \A n \in Nodes(graph) : \E i \in DOMAIN ops : n \in Nodeset(ops[i])
  <2> SUFFICES ASSUME NEW n \in Nodes(graph) PROVE \E i \in DOMAIN ops : n \in Nodeset(ops[i])
    OBVIOUS
  <2>1. n \in 1 .. node - 1
    BY <1>1, <1>3
  <2> QED
    BY <2>1 DEF Compiled, Ordered
<1>5. Len(ops) \in DOMAIN ops
  <2>1. PICK t \in graph.outputs : TRUE
    BY <1>1, GraphFacts
  <2>2. PICK n \in Nodes(graph) : Out(graph, n) = t
    BY <1>1, <2>1, GraphFacts
  <2>3. PICK i \in DOMAIN ops : n \in Nodeset(ops[i])
    BY <1>4, <2>2
  <2> QED
    BY <1>2, <2>3
<1>6. ASSUME NEW i \in DOMAIN ops
      PROVE  /\ OperationRight(ops[i]) /\ ops[i] \in Operations
             /\ ops[i].begin \in Nodes(graph) /\ EndOf(ops[i]) \in Nodes(graph)
             /\ ops[i].begin <= EndOf(ops[i]) /\ Nodeset(ops[i]) = ops[i].begin .. EndOf(ops[i])
             /\ ops[i].out = OutOf(EndOf(ops[i]))
  <2>1. OperationRight(ops[i]) /\ SpanRight(ops[i])
    BY DEF Compiled, Ordered, OperationRight
  <2>2. /\ ops[i] \in Operations /\ ops[i].begin \in Nodes(graph) /\ EndOf(ops[i]) \in Nodes(graph)
        /\ ops[i].out = OutOf(EndOf(ops[i]))
    BY <2>1 DEF SpanRight
  <2>3. ops[i].begin \in Nat /\ ops[i].count \in Nat \ {0}
    BY <2>2 DEF Operations
  <2> QED
    BY <2>1, <2>2, <2>3 DEF EndOf, Nodeset
<1>7. \A i, j \in DOMAIN ops : i < j => EndOf(ops[i]) < ops[j].begin
  BY DEF Compiled, Ordered
<1> QED
  BY <1>1, <1>2, <1>3, <1>4, <1>5, <1>6, <1>7

LEMMA SpanFacts ==
  ASSUME Compiled, NEW i \in DOMAIN ops
  PROVE  /\ i \in Nat /\ ops[i].begin \in Nat \ {0} /\ EndOf(ops[i]) \in Nat \ {0}
         /\ ops[i].begin <= EndOf(ops[i])
         /\ \A n \in Nat : n \in Nodeset(ops[i]) <=> ops[i].begin <= n /\ n <= EndOf(ops[i])
         /\ Nodeset(ops[i]) \subseteq Nodes(graph)
<1> DEFINE b == ops[i].begin
           e == EndOf(ops[i])
<1>1. /\ Len(ops) \in Nat /\ DOMAIN ops = 1 .. Len(ops) /\ NodeCount \in Nat
      /\ Nodes(graph) = 1 .. NodeCount /\ b \in Nodes(graph) /\ e \in Nodes(graph)
      /\ b <= e /\ Nodeset(ops[i]) = b .. e
  BY OperationFacts
<1>2. i \in Nat
  BY <1>1
<1> HIDE DEF b, e
<1>3. b \in Nat \ {0} /\ e \in Nat \ {0} /\ \A n \in Nat : n \in b .. e <=> b <= n /\ n <= e
  BY <1>1
<1>4. b .. e \subseteq Nodes(graph)
  BY <1>1
<1> QED
  BY <1>1, <1>2, <1>3, <1>4 DEF b, e

(* Nodes are in the operations in their order.                             *)
LEMMA PhysicalOrder ==
  ASSUME Compiled, NEW n \in Nodes(graph)
  PROVE  /\ PhysicalOf(n) \in DOMAIN ops /\ n \in Nodeset(ops[PhysicalOf(n)])
         /\ \A i \in DOMAIN ops :
              /\ n \in Nodeset(ops[i]) => PhysicalOf(n) = i
              /\ EndOf(ops[i]) < n => i < PhysicalOf(n)
              /\ i < PhysicalOf(n) => EndOf(ops[i]) < n
              /\ ops[i].begin <= n => i <= PhysicalOf(n)
              /\ i <= PhysicalOf(n) => ops[i].begin <= n
<1> DEFINE p == PhysicalOf(n)
<1>1. n \in Nat /\ n # 0 /\ ~(n > NodeCount)
  BY OperationFacts
<1>2. p = CHOOSE i \in DOMAIN ops : n \in Nodeset(ops[i])
  BY <1>1 DEF PhysicalOf
<1>3. p \in DOMAIN ops /\ n \in Nodeset(ops[p])
  BY <1>2, OperationFacts
<1> HIDE DEF p
<1>4. /\ p \in Nat /\ ops[p].begin \in Nat /\ EndOf(ops[p]) \in Nat
      /\ ops[p].begin <= n /\ n <= EndOf(ops[p])
  BY <1>1, <1>3, SpanFacts
<1>5. ASSUME NEW i \in DOMAIN ops
      PROVE  /\ n \in Nodeset(ops[i]) => p = i
             /\ EndOf(ops[i]) < n => i < p
             /\ i < p => EndOf(ops[i]) < n
             /\ ops[i].begin <= n => i <= p
             /\ i <= p => ops[i].begin <= n
  <2>1. /\ i \in Nat /\ ops[i].begin \in Nat /\ EndOf(ops[i]) \in Nat
        /\ ops[i].begin <= EndOf(ops[i])
        /\ n \in Nodeset(ops[i]) <=> ops[i].begin <= n /\ n <= EndOf(ops[i])
    BY <1>1, SpanFacts
  <2>2. /\ i < p => EndOf(ops[i]) < ops[p].begin
        /\ p < i => EndOf(ops[p]) < ops[i].begin
    BY <1>3, OperationFacts
  <2>3. i < p \/ i = p \/ p < i
    BY <1>4, <2>1
  <2>4. CASE i < p
    BY <1>1, <1>4, <2>1, <2>2, <2>4
  <2>5. CASE i = p
    BY <1>1, <1>4, <2>1, <2>5
  <2>6. CASE p < i
    BY <1>1, <1>4, <2>1, <2>2, <2>6
  <2> QED
    BY <2>3, <2>4, <2>5, <2>6
<1> QED
  BY <1>3, <1>5 DEF p

LEMMA LifeFacts ==
  ASSUME Compiled, NEW t \in All
  PROVE  /\ Birth(t) \in Nat /\ LastUse(t) \in Nat /\ Birth(t) <= LastUse(t)
         /\ \A m \in Readers(graph, t) : m <= LastUse(t)
         /\ t \in graph.outputs => LastUse(t) = NodeCount + 1 /\ PhysicalOf(LastUse(t)) = Len(ops)
         /\ t \notin graph.outputs /\ LastUse(t) # 0 => LastUse(t) \in Nodes(graph)
         /\ Life(t).first \in DOMAIN ops /\ Life(t).last \in DOMAIN ops
         /\ Life(t).first <= Life(t).last
<1> DEFINE uses == Readers(graph, t) \cup {Birth(t)}
           u == LastUse(t)
<1>1. graph \in Graphs /\ NodeCount \in Nat /\ Nodes(graph) = 1 .. NodeCount
  BY OperationFacts
<1>2. Birth(t) \in 0 .. NodeCount /\ (Birth(t) # 0 => Birth(t) \in Nodes(graph))
  BY <1>1, ProducerIs DEF Birth, All
<1>3. uses \subseteq 0 .. NodeCount /\ uses # {}
  BY <1>1, <1>2 DEF Readers
<1>4. CASE t \in graph.outputs
  <2>1. u = NodeCount + 1
    BY <1>4 DEF LastUse
  <2>2. Readers(graph, t) = {}
    BY <1>1, <1>4, GraphFacts
  <2>3. PhysicalOf(u) = Len(ops)
    BY <1>1, <2>1 DEF PhysicalOf
  <2> HIDE DEF u
  <2>4. /\ u \in Nat /\ Birth(t) <= u
        /\ \A m \in Readers(graph, t) : m <= u
    BY <1>1, <1>2, <2>1, <2>2
  <2>5. Life(t).last = Len(ops) /\ Life(t).first = PhysicalOf(Birth(t))
    BY <2>3 DEF Life, u
  <2>6. PhysicalOf(Birth(t)) \in DOMAIN ops
    <3>1. CASE Birth(t) = 0
      BY <3>1, OperationFacts DEF PhysicalOf
    <3>2. CASE Birth(t) # 0
      BY <1>2, <3>2, PhysicalOrder
    <3> QED
      BY <3>1, <3>2
  <2>7. Life(t).first \in DOMAIN ops /\ Life(t).last \in DOMAIN ops /\ Life(t).first <= Life(t).last
    BY <2>5, <2>6, OperationFacts
  <2> QED
    BY <1>2, <1>4, <2>1, <2>3, <2>4, <2>7 DEF u
<1>5. CASE t \notin graph.outputs
  <2>1. u = CHOOSE n \in uses : \A m \in uses : m <= n
    BY <1>5 DEF LastUse
  <2>2. u \in uses /\ \A m \in uses : m <= u
    <3> HIDE DEF uses, u
    <3> QED
      BY <1>1, <1>3, <2>1, GreatestOf
  <2>3. /\ u \in Nat /\ Birth(t) <= u /\ \A m \in Readers(graph, t) : m <= u
    BY <1>2, <1>3, <2>2
  <2> HIDE DEF u
  <2>4. u # 0 => u \in Nodes(graph)
    BY <1>1, <1>3, <2>2
  <2>5. Life(t).last = PhysicalOf(u) /\ Life(t).first = PhysicalOf(Birth(t))
    BY DEF Life, u
  <2>6. /\ PhysicalOf(u) \in DOMAIN ops /\ PhysicalOf(Birth(t)) \in DOMAIN ops
        /\ PhysicalOf(Birth(t)) <= PhysicalOf(u)
    <3>1. PhysicalOf(0) = 1 /\ 1 \in DOMAIN ops /\ \A i \in DOMAIN ops : 1 <= i
      BY OperationFacts DEF PhysicalOf
    <3>2. CASE Birth(t) = 0 /\ u = 0
      BY <3>1, <3>2
    <3>3. CASE Birth(t) = 0 /\ u # 0
      BY <2>4, <3>1, <3>3, PhysicalOrder
    <3>4. CASE Birth(t) # 0
      <4>1. u # 0 /\ u \in Nodes(graph) /\ Birth(t) \in Nodes(graph)
        BY <1>2, <2>3, <2>4, <3>4
      <4>2. PICK q : q = PhysicalOf(Birth(t))
        OBVIOUS
      <4>3. q \in DOMAIN ops /\ Birth(t) \in Nodeset(ops[q])
        BY <4>1, <4>2, PhysicalOrder
      <4>4. ops[q].begin <= u
        <5>1. ops[q].begin \in Nat /\ ops[q].begin <= Birth(t)
          BY <1>2, <4>3, SpanFacts
        <5> QED
          BY <1>2, <2>3, <5>1
      <4> QED
        BY <4>1, <4>2, <4>3, <4>4, PhysicalOrder
    <3> QED
      BY <3>2, <3>3, <3>4
  <2> QED
    BY <1>2, <1>5, <2>3, <2>4, <2>5, <2>6 DEF u
<1> QED
  BY <1>4, <1>5

(* A tensor's place is that of a slot; a new slot is behind the others.    *)
LEMMA PlacesOne ==
  ASSUME PlanInv, PlaceNext
  PROVE  /\ place' \in [All -> Nat \cup {-1}] /\ slots' \in Seq(Occupied)
         /\ \A u \in All : place'[u] # -1 => NeedsNhwc(u)
<1>1. /\ pc = "place" /\ Compiled
      /\ place \in [All -> Nat \cup {-1}] /\ slots \in Seq(Occupied)
      /\ \A u \in All : place[u] # -1 => NeedsNhwc(u)
  BY DEF PlaceNext, PlanInv, CompileInv, PlaceInv, Compiled
<1>2. PICK t \in Waiting :
        \/ \E i \in FreeSlots(t) :
             /\ place' = [place EXCEPT ![t] = slots[i].offset]
             /\ slots' = [slots EXCEPT ![i].last = Life(t).last]
        \/ /\ place' = [place EXCEPT ![t] = WorkspaceEnd]
           /\ slots' = Append(slots, [offset |-> WorkspaceEnd, bytes |-> graph.bytes[t],
                                       last |-> Life(t).last])
  BY DEF PlaceNext
<1>3. t \in All /\ NeedsNhwc(t)
  BY DEF Waiting
<1>4. PICK d : d = Life(t).last
  OBVIOUS
<1>5. d \in Nat /\ graph.bytes[t] \in Nat
  <2>1. d \in Nat
    BY <1>1, <1>3, <1>4, LifeFacts, OperationFacts
  <2>2. WellFormed(graph)
    BY <1>1, GraphsWellFormed DEF Compiled, StaticInv
  <2> QED
    BY <1>3, <2>1, <2>2 DEF WellFormed, All
<1>6. \A i \in DOMAIN slots : /\ slots[i] \in Occupied /\ i \in 1 .. Len(slots)
  BY <1>1, LenProperties, ElementOfSeq
<1>7. WorkspaceEnd \in Nat
  <2>1. slots # <<>> => Len(slots) \in DOMAIN slots
    BY <1>1, LenProperties, EmptySeq
  <2> QED
    BY <1>6, <2>1 DEF WorkspaceEnd, Occupied
<1>8. CASE \E i \in FreeSlots(t) :
             /\ place' = [place EXCEPT ![t] = slots[i].offset]
             /\ slots' = [slots EXCEPT ![i].last = d]
  <2>1. PICK i \in FreeSlots(t) :
             /\ place' = [place EXCEPT ![t] = slots[i].offset]
             /\ slots' = [slots EXCEPT ![i].last = d]
    BY <1>8
  <2>2. i \in 1 .. Len(slots) /\ slots[i] \in Occupied
    BY <1>6 DEF FreeSlots
  <2>3. [slots[i] EXCEPT !.last = d] \in Occupied /\ slots[i].offset \in Nat
    BY <1>5, <2>2 DEF Occupied
  <2>4. slots' \in Seq(Occupied)
    BY <1>1, <2>1, <2>2, <2>3, ExceptSeq
  <2> QED
    BY <1>1, <1>3, <2>1, <2>3, <2>4
<1>9. CASE /\ place' = [place EXCEPT ![t] = WorkspaceEnd]
           /\ slots' = Append(slots, [offset |-> WorkspaceEnd, bytes |-> graph.bytes[t], last |-> d])
  <2>1. [offset |-> WorkspaceEnd, bytes |-> graph.bytes[t], last |-> d] \in Occupied
    BY <1>5, <1>7 DEF Occupied
  <2>2. slots' \in Seq(Occupied)
    BY <1>1, <1>9, <2>1, AppendProperties
  <2> QED
    BY <1>1, <1>3, <1>7, <1>9, <2>2
<1> QED
  BY <1>2, <1>4, <1>8, <1>9

LEMMA PlanStep ==
  ASSUME PlanInv, [Next]_vars
  PROVE  PlanInv'
<1>1. CASE CompileConv \/ CompileOther \/ CompileGeneric
  BY <1>1, CompileStep
<1>2. CASE /\ UNCHANGED <<graph, layouts, source, ops, node>>
           /\ pc' \in {"compile", "rejected"} \/ node > NodeCount
           /\ PlaceInv'
  <2>1. Ordered(ops, node)'
    <3>1. PICK os, n : os = ops /\ n = node
      OBVIOUS
    <3>2. Ordered(os, n) /\ os = ops' /\ n = node'
      BY <1>2, <3>1 DEF PlanInv, CompileInv
    <3>3. Ordered(os, n)'
      BY <1>2, <3>2, SameOperations
    <3> QED
      BY <3>2, <3>3
  <2>2. CompileInv'
    BY <1>2, <2>1 DEF CompileInv, NodeCount
  <2> QED
    BY <1>2, <2>2, StaticStep DEF PlanInv
<1>3. ASSUME UNCHANGED <<graph, layouts, ops>>
      PROVE  \A t : NeedsNhwc(t)' <=> NeedsNhwc(t)
  BY <1>3, SamePlan
<1>4. ASSUME UNCHANGED <<graph, layouts, ops, place>>
      PROVE  (Valid' <=> Valid) /\ Waiting' = Waiting
  <2>1. \A t : (NeedsNhwc(t)' <=> NeedsNhwc(t)) /\ Life(t)' = Life(t)
    BY <1>4, SamePlan
  <2> QED
    BY <1>4, <2>1 DEF Valid, Waiting, All, LiveTogether, Overlapping
<1>5. pc \notin {"compile", "rejected"} => node > NodeCount
  BY DEF PlanInv, CompileInv
<1>6. CASE EndCompile
  <2>1. PlaceInv'
    BY <1>6 DEF EndCompile, planning, PlanInv, PlaceInv, All
  <2> QED
    BY <1>2, <1>6, <2>1 DEF EndCompile, planning
<1>7. CASE PlaceNext
  <2>1. pc = "place" /\ UNCHANGED <<graph, layouts, source, ops, node, pc>>
    BY <1>7 DEF PlaceNext
  <2>2. /\ place' \in [All -> Nat \cup {-1}] /\ slots' \in Seq(Occupied)
        /\ \A u \in All : place'[u] # -1 => NeedsNhwc(u)
    BY <1>7, PlacesOne
  <2>3. PlaceInv'
    BY <1>3, <2>1, <2>2 DEF PlaceInv, All
  <2> QED
    BY <1>2, <1>5, <2>1, <2>3
<1>8. CASE EndPlace
  <2>1. /\ pc = "place" /\ UNCHANGED <<graph, layouts, source, ops, node, place, slots>>
        /\ Waiting = {} /\ pc' = IF Valid THEN "ready" ELSE "rejected"
    BY <1>8 DEF EndPlace, planning
  <2>2. PlaceInv'
    BY <2>1, <1>3, <1>4 DEF PlanInv, PlaceInv, All
  <2> QED
    BY <1>2, <1>5, <2>1, <2>2
<1>9. CASE CreateFails
  <2>1. UNCHANGED <<graph, layouts, source, ops, node, place, slots>> /\ pc' = "rejected"
    BY <1>9 DEF CreateFails
  <2>2. PlaceInv'
    BY <2>1 DEF PlanInv, PlaceInv, All
  <2> QED
    BY <1>2, <2>1, <2>2
<1>10. CASE Run
  <2>1. /\ UNCHANGED <<graph, layouts, source, ops, node, place, slots>>
        /\ pc \in {"ready", "run", "done"} /\ pc' \in {"run", "done", "rejected"}
    BY <1>10 DEF Run, Begin, RunOp, RunGeneric, RunConv, RunDepthwise, RunElementwise,
                 RunMapWise, RunGelu, Perform, RunFails, Finish, planning
  <2>2. PlaceInv'
    BY <2>1, <1>3, <1>4 DEF PlanInv, PlaceInv, All
  <2> QED
    BY <1>2, <1>5, <2>1, <2>2
<1>11. CASE UNCHANGED vars
  <2>1. UNCHANGED <<graph, layouts, source, ops, node, place, slots, pc>>
    BY <1>11 DEF vars, planning
  <2>2. PlaceInv'
    BY <2>1, <1>3, <1>4 DEF PlanInv, PlaceInv, All
  <2>3. pc' \in {"compile", "rejected"} \/ node > NodeCount
    BY <1>5, <2>1
  <2> QED
    BY <1>2, <2>1, <2>2, <2>3
<1> QED
  BY <1>1, <1>6, <1>7, <1>8, <1>9, <1>10, <1>11 DEF Next, Create, Compile

(* Before operation i, which tensors have been written; which are wanted   *)
(* from there on.                                                          *)
Reached(t, i) == t = graph.input \/ \E j \in DOMAIN ops : j < i /\ t = ops[j].out
Needed(t, i) == Life(t).last >= i \/ t \in graph.outputs

LEMMA BirthOf ==
  ASSUME Compiled
  PROVE  /\ Birth(graph.input) = 0 /\ graph.input \in All
         /\ \A i \in DOMAIN ops :
              /\ ops[i].out \in All /\ ops[i].out # graph.input /\ ops[i].out \notin graph.const
              /\ Birth(ops[i].out) = EndOf(ops[i]) /\ Life(ops[i].out).first = i
              /\ \A j \in DOMAIN ops : ops[j].out = ops[i].out => j = i
<1>1. graph \in Graphs
  BY OperationFacts
<1>2. Birth(graph.input) = 0 /\ graph.input \in All
  BY <1>1, GraphFacts, ProducerIs DEF Birth, All
<1>3. ASSUME NEW i \in DOMAIN ops
      PROVE  /\ ops[i].out \in All /\ ops[i].out # graph.input /\ ops[i].out \notin graph.const
             /\ Birth(ops[i].out) = EndOf(ops[i]) /\ Life(ops[i].out).first = i
             /\ \A j \in DOMAIN ops : ops[j].out = ops[i].out => j = i
  <2>1. ops[i].out = Out(graph, EndOf(ops[i])) /\ EndOf(ops[i]) \in Nodes(graph)
    BY OperationFacts DEF OutOf
  <2>2. ops[i].out \in All /\ ops[i].out # graph.input /\ ops[i].out \notin graph.const
    BY <1>1, <2>1, GraphFacts DEF All
  <2>3. Birth(ops[i].out) = EndOf(ops[i])
    BY <1>1, <2>1, ProducerIs DEF Birth
  <2>4. EndOf(ops[i]) \in Nodeset(ops[i])
    BY SpanFacts
  <2>5. PhysicalOf(EndOf(ops[i])) = i
    BY <2>1, <2>4, PhysicalOrder
  <2>6. Life(ops[i].out).first = i
    BY <2>3, <2>5 DEF Life
  <2>7. ASSUME NEW j \in DOMAIN ops, ops[j].out = ops[i].out
        PROVE  j = i
    <3>1. Birth(ops[j].out) = EndOf(ops[j]) /\ EndOf(ops[j]) \in Nodes(graph)
      BY <1>1, OperationFacts, ProducerIs DEF Birth, OutOf
    <3>2. EndOf(ops[j]) = EndOf(ops[i])
      BY <2>3, <2>7, <3>1
    <3>3. EndOf(ops[j]) \in Nodeset(ops[j])
      BY SpanFacts
    <3>4. PhysicalOf(EndOf(ops[j])) = j
      BY <3>1, <3>3, PhysicalOrder
    <3> QED
      BY <2>5, <3>2, <3>4
  <2> QED
    BY <2>2, <2>3, <2>6, <2>7
<1> QED
  BY <1>2, <1>3

LEMMA ReachedFacts ==
  ASSUME Compiled, NEW i \in DOMAIN ops, NEW t \in All, Reached(t, i)
  PROVE  /\ Birth(t) < ops[i].begin /\ Life(t).first <= i /\ t # ops[i].out
         /\ Birth(t) = 0 => t = graph.input
<1>1. i \in Nat \ {0} /\ ops[i].begin \in Nat \ {0}
  BY SpanFacts, OperationFacts
<1>2. CASE t = graph.input
  <2>1. Birth(t) = 0 /\ t # ops[i].out
    BY <1>2, BirthOf
  <2>2. Life(t).first = 1
    BY <2>1 DEF Life, PhysicalOf
  <2> QED
    BY <1>1, <1>2, <2>1, <2>2
<1>3. CASE \E j \in DOMAIN ops : j < i /\ t = ops[j].out
  <2>1. PICK j \in DOMAIN ops : j < i /\ t = ops[j].out
    BY <1>3
  <2>2. j \in Nat /\ EndOf(ops[j]) \in Nat \ {0} /\ EndOf(ops[j]) < ops[i].begin
    BY <2>1, SpanFacts, OperationFacts
  <2>3. Birth(t) = EndOf(ops[j]) /\ Life(t).first = j /\ (t = ops[i].out => i = j)
    BY <2>1, BirthOf
  <2> QED
    BY <1>1, <2>1, <2>2, <2>3
<1> QED
  BY <1>2, <1>3 DEF Reached

LEMMA NeededFacts ==
  ASSUME Compiled, NEW i \in DOMAIN ops, NEW t \in All
  PROVE  /\ Needed(t, i) => /\ Life(t).last >= i
                            /\ Birth(t) # 0 => ops[i].begin <= LastUse(t)
         /\ Needed(t, i + 1) => /\ Needed(t, i)
                                /\ Birth(t) # 0 => EndOf(ops[i]) < LastUse(t)
<1> DEFINE u == LastUse(t)
<1>1. /\ i \in Nat /\ ops[i].begin \in Nat /\ EndOf(ops[i]) \in Nat
      /\ ops[i].begin <= EndOf(ops[i]) /\ EndOf(ops[i]) <= NodeCount
      /\ Len(ops) \in Nat /\ i <= Len(ops) /\ NodeCount \in Nat
  <2>1. /\ i \in Nat /\ ops[i].begin \in Nat /\ EndOf(ops[i]) \in Nat
        /\ ops[i].begin <= EndOf(ops[i])
    BY SpanFacts
  <2> QED
    BY <2>1, OperationFacts
<1>2. /\ Birth(t) \in Nat /\ u \in Nat /\ Birth(t) <= u /\ Life(t).last = PhysicalOf(u)
      /\ Life(t).last \in Nat
      /\ t \in graph.outputs => u = NodeCount + 1 /\ PhysicalOf(u) = Len(ops)
      /\ t \notin graph.outputs /\ u # 0 => u \in Nodes(graph)
  <2>1. Life(t).last = PhysicalOf(u)
    BY DEF Life
  <2>2. Life(t).last \in Nat
    BY LifeFacts, OperationFacts
  <2> QED
    BY <2>1, <2>2, LifeFacts
<1> HIDE DEF u
<1>3. CASE t \in graph.outputs
  BY <1>1, <1>2, <1>3 DEF Needed, u
<1>4. CASE t \notin graph.outputs
  <2>1. Needed(t, i) => Life(t).last >= i
    BY <1>4 DEF Needed
  <2>2. Needed(t, i + 1) => Life(t).last >= i + 1
    BY <1>4 DEF Needed
  <2>3. Needed(t, i + 1) => Needed(t, i)
    BY <1>1, <1>2, <2>2 DEF Needed
  <2>4. ASSUME Birth(t) # 0
        PROVE  /\ Life(t).last >= i => ops[i].begin <= u
               /\ Life(t).last >= i + 1 => EndOf(ops[i]) < u
    <3>1. u \in Nodes(graph)
      BY <1>2, <1>4, <2>4
    <3>2. /\ i < PhysicalOf(u) => EndOf(ops[i]) < u
          /\ i <= PhysicalOf(u) => ops[i].begin <= u
      BY <3>1, PhysicalOrder
    <3> QED
      BY <1>1, <1>2, <3>2
  <2> QED
    BY <2>1, <2>2, <2>3, <2>4 DEF u
<1> QED
  BY <1>3, <1>4

(* What an operation reads has been written and is still wanted.           *)
LEMMA ConsumedFacts ==
  ASSUME Compiled, NEW i \in DOMAIN ops, NEW t \in Consumed(ops[i])
  PROVE  /\ t \in All /\ t \notin graph.const /\ Reached(t, i) /\ Needed(t, i)
         /\ LastUse(t) \in Nat /\ ops[i].begin <= LastUse(t)
<1>1. PICK n \in Nodeset(ops[i]) : t \in Ins(graph, n)
  BY DEF Consumed
<1>2. t \notin graph.const /\ \A m \in Nodeset(ops[i]) : OutOf(m) # t
  BY DEF Consumed
<1>3. graph \in Graphs /\ n \in Nodes(graph)
  BY OperationFacts, SpanFacts
<1>4. t \in All /\ n \in Readers(graph, t)
  BY <1>1, <1>3, OperandFacts DEF Readers, All
<1>5. t \notin graph.outputs
  BY <1>3, <1>4, GraphFacts
<1>6. n \in Nat /\ i \in Nat /\ ops[i].begin <= n /\ ops[i].begin \in Nat
  <2>1. i \in Nat /\ ops[i].begin \in Nat
    BY SpanFacts
  <2>2. n \in Nat
    BY <1>3, OperationFacts
  <2>3. n \in Nodeset(ops[i]) <=> ops[i].begin <= n /\ n <= EndOf(ops[i])
    BY <2>2, SpanFacts
  <2>4. QED
    BY <1>1, <2>1, <2>2, <2>3
<1>7. LastUse(t) \in Nat /\ n <= LastUse(t) /\ LastUse(t) \in Nodes(graph)
  <2>1. LastUse(t) \in Nat /\ n <= LastUse(t)
    BY <1>4, LifeFacts
  <2>2. LastUse(t) # 0
    BY <1>3, <1>6, <2>1, OperationFacts
  <2> QED
    BY <1>4, <1>5, <2>1, <2>2, LifeFacts
<1>8. ops[i].begin <= LastUse(t)
  BY <1>6, <1>7
<1>9. Needed(t, i)
  <2>1. i <= PhysicalOf(LastUse(t))
    BY <1>7, <1>8, PhysicalOrder
  <2>2. PhysicalOf(LastUse(t)) \in Nat
    BY <1>7, PhysicalOrder, OperationFacts
  <2> QED
    BY <1>6, <2>1, <2>2 DEF Needed, Life
<1>10. Reached(t, i)
  <2>1. CASE t = graph.input
    BY <2>1 DEF Reached
  <2>2. CASE t # graph.input
    <3>1. PICK m \in Nodes(graph) : m < n /\ OutOf(m) = t
      BY <1>1, <1>2, <1>3, <2>2, OperandFacts DEF OutOf
    <3>2. PICK j : j = PhysicalOf(m)
      OBVIOUS
    <3>3. j \in DOMAIN ops /\ m \in Nodeset(ops[j])
      BY <3>1, <3>2, PhysicalOrder
    <3>4. j # i
      BY <1>2, <3>1, <3>3
    <3>5. PhysicalOf(n) = i
      BY <1>1, <1>3, PhysicalOrder
    <3>6. ~(i < j)
      <4>1. ASSUME i < j PROVE FALSE
        <5>1. EndOf(ops[i]) < ops[j].begin
          BY <3>3, <4>1, OperationFacts
        <5>2. m \in Nat
          BY <3>1, OperationFacts
        <5>3. ops[j].begin \in Nat /\ EndOf(ops[i]) \in Nat
          BY <3>3, SpanFacts
        <5>4. ops[j].begin <= m
          BY <3>3, <5>2, SpanFacts
        <5>5. n <= EndOf(ops[i])
          BY <1>1, <1>6, SpanFacts
        <5> QED
          BY <1>6, <3>1, <5>1, <5>2, <5>3, <5>4, <5>5
      <4> QED
        BY <4>1
    <3>7. m = EndOf(ops[j])
      <4>1. SUFFICES ASSUME m # EndOf(ops[j]) PROVE FALSE
        OBVIOUS
      <4>2. OperationRight(ops[j])
        BY <3>3, OperationFacts
      <4>3. Readers(graph, OutOf(m)) \subseteq Nodeset(ops[j])
        BY <3>3, <4>1, <4>2 DEF OperationRight, SpanRight
      <4>4. n \in Nodeset(ops[j])
        BY <1>4, <3>1, <4>3
      <4>5. PhysicalOf(n) = j
        BY <1>3, <3>3, <4>4, PhysicalOrder
      <4> QED
        BY <3>4, <3>5, <4>5
    <3>8. t = ops[j].out
      BY <3>1, <3>3, <3>7, OperationFacts
    <3>9. j < i
      <4>1. j \in Nat
        BY <3>3, SpanFacts
      <4> QED
        BY <1>6, <3>4, <3>6, <4>1
    <3> QED
      BY <3>3, <3>8, <3>9 DEF Reached
  <2> QED
    BY <2>1, <2>2
<1> QED
  BY <1>2, <1>4, <1>7, <1>8, <1>9, <1>10

-----------------------------------------------------------------------------
(* Copies.                                                                 *)

Ready ==
  /\ Compiled /\ entry \in Both /\ Valid
  /\ \A t \in All : place[t] >= 0 <=> NeedsNhwc(t)

States == [available : [All -> SUBSET Both], copies : SUBSET (All \X Both), ok : BOOLEAN]

(* What available_layouts says before operation i.                         *)
Honest(av, i) ==
  /\ entry \in av[graph.input]
  /\ \A j \in DOMAIN ops : j < i => LayoutOf(ops[j]) \in av[ops[j].out]
  /\ \A t \in All : av[t] # {} =>
       /\ Reached(t, i)
       /\ t \in graph.neutral => av[t] = Both
       /\ Rank4(graph, t) \/ "NCHW" \in av[t]
       /\ "NHWC" \in av[t] /\ t \notin graph.neutral => place[t] >= 0
Current(av, cp, i) ==
  \A t \in All : \A l \in av[t] : Needed(t, i) => Copy(t, l) \in cp
Held(s, i) == s \in States /\ Honest(s.available, i) /\ Current(s.available, s.copies, i)

LEMMA ReachedHas ==
  ASSUME NEW av, NEW i, Honest(av, i), NEW t, Reached(t, i)
  PROVE  av[t] # {}
BY DEF Honest, Reached

LEMMA LeftKeeps ==
  ASSUME NEW t, NEW u, NEW l \in Both, NEW k \in Both, NEW cp, Copy(u, k) \in cp, u # t,
         t \notin graph.neutral /\ l = "NHWC" /\ u \notin graph.neutral /\ k = "NHWC"
           => ~Overlapping(t, u),
         (t \in graph.neutral \/ l = "NCHW") /\ InSession(u) => ~SessionMayShare(t, u)
  PROVE  Copy(u, k) \in Left(cp, t, l)
<1> DEFINE c == Copy(u, k)
<1>1. /\ c[1] = u /\ c[2] = (IF u \in graph.neutral THEN "NCHW" ELSE k)
      /\ Copy(t, l)[2] = (IF t \in graph.neutral THEN "NCHW" ELSE l)
  BY DEF Copy
<1> HIDE DEF c
<1>2. CASE Copy(t, l)[2] = "NHWC"
  <2>1. t \notin graph.neutral /\ l = "NHWC"
    BY <1>1, <1>2
  <2>2. c[2] = "NHWC" => u \notin graph.neutral /\ k = "NHWC"
    BY <1>1
  <2>3. ~(c[2] = "NHWC" /\ Overlapping(t, c[1]))
    BY <1>1, <2>1, <2>2
  <2>4. Left(cp, t, l) = cp \ {d \in cp : d[2] = "NHWC" /\ Overlapping(t, d[1])}
    BY <1>2 DEF Left
  <2> QED
    BY <2>3, <2>4 DEF c
<1>3. CASE Copy(t, l)[2] # "NHWC"
  <2>1. t \in graph.neutral \/ l = "NCHW"
    BY <1>1, <1>3 DEF Both
  <2>2. ~(InSession(c[1]) /\ (c[1] = t \/ SessionMayShare(t, c[1])))
    BY <1>1, <2>1
  <2>3. Left(cp, t, l) =
          cp \ {d \in cp : d[2] = "NCHW" /\ InSession(d[1]) /\ (d[1] = t \/ SessionMayShare(t, d[1]))}
    BY <1>3 DEF Left
  <2> QED
    BY <2>2, <2>3 DEF c
<1> QED
  BY <1>2, <1>3

LEMMA PlacesApart ==
  ASSUME Ready, NEW i \in DOMAIN ops, NEW t \in All, NEW u \in All, t # u,
         place[t] >= 0, place[u] >= 0,
         Life(t).first <= i, i <= Life(t).last, Life(u).first <= i, i <= Life(u).last
  PROVE  ~Overlapping(t, u)
<1>1. NeedsNhwc(t) /\ NeedsNhwc(u)
  BY DEF Ready
<1>2. /\ i \in Nat /\ Life(t).first \in Nat /\ Life(t).last \in Nat
      /\ Life(u).first \in Nat /\ Life(u).last \in Nat
  <2>1. \A v \in All : Life(v).first \in DOMAIN ops /\ Life(v).last \in DOMAIN ops
    BY LifeFacts DEF Ready
  <2>2. \A j \in DOMAIN ops : j \in Nat
    BY SpanFacts DEF Ready
  <2> QED
    BY <2>1, <2>2
<1>3. LiveTogether(t, u)
  BY <1>2 DEF LiveTogether
<1> QED
  BY <1>1, <1>3 DEF Ready, Valid

(* A conversion before operation i leaves what is wanted from there on.    *)
LEMMA ConvertedHeld ==
  ASSUME Ready, NEW i \in DOMAIN ops, NEW s, Held(s, i),
         NEW t \in All, Reached(t, i), Needed(t, i), NEW l \in Both,
         ~Readable(s, t, l), Convertible(s, t, l)
  PROVE  /\ Held(Converted(s, t, l), i)
         /\ Converted(s, t, l).ok = s.ok /\ l \in Converted(s, t, l).available[t]
         /\ \A u \in All : s.available[u] \subseteq Converted(s, t, l).available[u]
<1> DEFINE av == [s.available EXCEPT ![t] = Both]
           cp == Left(s.copies, t, l) \cup
                   (IF Copy(t, From(l)) \in s.copies THEN {Copy(t, l)} ELSE {})
           r == Converted(s, t, l)
<1>1. Compiled /\ s \in States /\ Honest(s.available, i) /\ Current(s.available, s.copies, i)
  BY DEF Ready, Held
<1>2. t \notin graph.neutral /\ From(l) \in s.available[t] /\ Rank4(graph, t) /\ place[t] >= 0
  <2>1. s.available[t] # {} /\ s.available[t] \subseteq Both
    BY <1>1, ReachedHas DEF States
  <2>2. l \notin s.available[t]
    BY DEF Readable
  <2>3. t \notin graph.neutral
    BY <1>1, <2>1, <2>2 DEF Honest
  <2>4. From(l) \in s.available[t]
    BY <2>1, <2>2 DEF From, Both
  <2> QED
    BY <2>3, <2>4 DEF Convertible, HasNhwcPlace
<1>3. Copy(t, From(l)) \in s.copies
  BY <1>1, <1>2 DEF Current
<1>4. r.available = av /\ r.copies = cp /\ r.ok = s.ok /\ r \in States
  <2>1. Copy(t, l) \in All \X Both
    BY <1>2 DEF Copy
  <2>2. av \in [All -> SUBSET Both] /\ cp \in SUBSET (All \X Both)
    <3>1. s.available \in [All -> SUBSET Both] /\ s.copies \in SUBSET (All \X Both)
      BY <1>1 DEF States
    <3>2. Left(s.copies, t, l) \subseteq s.copies
      BY DEF Left
    <3> QED
      BY <2>1, <3>1, <3>2
  <2>3. r = [[s EXCEPT !.available = av] EXCEPT !.copies = cp]
    BY DEF Converted
  <2> HIDE DEF av, cp
  <2> QED
    BY <1>1, <2>2, <2>3 DEF States
<1>5. /\ av[t] = Both /\ \A u \in All \ {t} : av[u] = s.available[u]
      /\ \A u \in All : s.available[u] \subseteq av[u]
  BY <1>1 DEF States
<1>6. Honest(av, i)
  <2>1. entry \in av[graph.input]
    BY <1>1, <1>5, BirthOf DEF Honest
  <2>2. \A j \in DOMAIN ops : j < i => LayoutOf(ops[j]) \in av[ops[j].out]
    BY <1>1, <1>5, BirthOf DEF Honest
  <2>3. ASSUME NEW u \in All, av[u] # {}
        PROVE  /\ Reached(u, i)
               /\ u \in graph.neutral => av[u] = Both
               /\ Rank4(graph, u) \/ "NCHW" \in av[u]
               /\ "NHWC" \in av[u] /\ u \notin graph.neutral => place[u] >= 0
    <3>1. CASE u = t
      BY <1>2, <1>5, <3>1
    <3>2. CASE u # t
      BY <1>1, <1>5, <2>3, <3>2 DEF Honest
    <3> QED
      BY <3>1, <3>2
  <2> HIDE DEF av
  <2> QED
    BY <2>1, <2>2, <2>3 DEF Honest
<1>7. Current(av, cp, i)
  <2>1. SUFFICES ASSUME NEW u \in All, NEW k \in av[u], Needed(u, i)
                 PROVE  Copy(u, k) \in cp
    BY DEF Current
  <2>2. k \in Both
    BY <1>4 DEF States
  <2>3. CASE u = t
    <3>1. CASE k = l
      BY <1>3, <2>3, <3>1
    <3>2. CASE k # l
      <4>1. k = From(l) /\ Copy(t, k) = <<t, k>> /\ Copy(t, l)[2] = l
        BY <1>2, <2>2, <3>2 DEF From, Both, Copy
      <4>2. <<t, k>>[1] = t /\ <<t, k>>[2] = k /\ <<t, k>> \in s.copies
        BY <1>3, <4>1
      <4>3. CASE l = "NHWC"
        <5>1. k = "NCHW"
          BY <4>1, <4>3 DEF From
        <5> QED
          BY <2>3, <4>1, <4>2, <4>3, <5>1 DEF Left
      <4>4. CASE l = "NCHW"
        <5>1. k = "NHWC"
          BY <4>1, <4>4 DEF From
        <5> QED
          BY <2>3, <4>1, <4>2, <4>4, <5>1 DEF Left
      <4> QED
        BY <4>3, <4>4 DEF Both
    <3> QED
      BY <3>1, <3>2
  <2>4. CASE u # t
    <3>1. k \in s.available[u] /\ Copy(u, k) \in s.copies
      BY <1>1, <1>5, <2>1, <2>4 DEF Current
    <3>2. Reached(u, i) /\ ("NHWC" \in s.available[u] /\ u \notin graph.neutral => place[u] >= 0)
      BY <1>1, <3>1 DEF Honest
    <3>3. /\ Life(t).first <= i /\ Life(u).first <= i /\ i <= Life(t).last /\ i <= Life(u).last
      <4>1. Life(t).last >= i /\ Life(u).last >= i
        BY <1>1, <2>1, NeededFacts
      <4> QED
        BY <1>1, <3>2, <4>1, ReachedFacts
    <3>4. u \notin graph.neutral /\ k = "NHWC" => ~Overlapping(t, u)
      BY <1>2, <2>4, <3>1, <3>2, <3>3, PlacesApart
    <3>5. l = "NCHW" /\ InSession(u) => ~SessionMayShare(t, u)
      <4>1. SUFFICES ASSUME l = "NCHW", InSession(u) PROVE ~SessionMayShare(t, u)
        OBVIOUS
      <4>2. Birth(t) # 0 /\ Birth(u) # 0
        BY <4>1 DEF InSession, Convertible
      <4>3. /\ ops[i].begin <= LastUse(t) /\ ops[i].begin <= LastUse(u)
            /\ Birth(t) < ops[i].begin /\ Birth(u) < ops[i].begin
        BY <1>1, <2>1, <3>2, <4>2, NeededFacts, ReachedFacts
      <4>4. /\ LastUse(t) \in Nat /\ LastUse(u) \in Nat /\ Birth(t) \in Nat /\ Birth(u) \in Nat
            /\ ops[i].begin \in Nat
        BY <1>1, LifeFacts, SpanFacts
      <4> QED
        BY <4>3, <4>4 DEF SessionMayShare
    <3>6. Copy(u, k) \in Left(s.copies, t, l)
      BY <1>2, <2>2, <2>4, <3>1, <3>4, <3>5, LeftKeeps
    <3> QED
      BY <3>6
  <2> QED
    BY <2>3, <2>4
<1> HIDE DEF av, cp, r
<1>8. Held(r, i)
  BY <1>4, <1>6, <1>7 DEF Held
<1> QED
  BY <1>4, <1>5, <1>8 DEF r

(* What an operation asks for it has, or the run is refused.               *)
LEMMA AskedHeld ==
  ASSUME Ready, NEW i \in DOMAIN ops, NEW s, Held(s, i), NEW l \in Both,
         NEW t, t \in graph.const \/ (t \in All /\ Reached(t, i) /\ Needed(t, i))
  PROVE  /\ Held(Asked(s, t, l), i)
         /\ Asked(s, t, l).ok => /\ s.ok
                                 /\ t \notin graph.const => l \in Asked(s, t, l).available[t]
         /\ \A u \in All : s.available[u] \subseteq Asked(s, t, l).available[u]
<1>1. s \in States /\ Honest(s.available, i) /\ Current(s.available, s.copies, i)
  BY DEF Held
<1>2. CASE t \in graph.const
  <2>1. Asked(s, t, l) = s
    BY <1>2 DEF Asked
  <2> QED
    BY <1>2, <2>1
<1>3. CASE t \notin graph.const /\ l = "NCHW" /\ ~Rank4(graph, t)
  <2>1. Asked(s, t, l) = s
    BY <1>3 DEF Asked
  <2>2. s.available[t] # {}
    BY <1>1, <1>3, ReachedHas
  <2>3. "NCHW" \in s.available[t]
    BY <1>1, <1>3, <2>2 DEF Honest
  <2> QED
    BY <1>3, <2>1, <2>3
<1>4. CASE t \notin graph.const /\ ~(l = "NCHW" /\ ~Rank4(graph, t))
  <2>1. Asked(s, t, l) = Ensure(s, t, l) /\ t \in All /\ Reached(t, i) /\ Needed(t, i)
    BY <1>4 DEF Asked
  <2>2. CASE ~s.ok \/ Readable(s, t, l)
    <3>1. Ensure(s, t, l) = s
      BY <2>2 DEF Ensure
    <3> QED
      BY <2>1, <2>2, <3>1 DEF Readable
  <2>3. CASE s.ok /\ ~Readable(s, t, l) /\ Convertible(s, t, l)
    <3>1. Ensure(s, t, l) = Converted(s, t, l)
      BY <2>3 DEF Ensure
    <3> QED
      BY <2>1, <2>3, <3>1, ConvertedHeld
  <2>4. CASE s.ok /\ ~Readable(s, t, l) /\ ~Convertible(s, t, l)
    <3> DEFINE r == [s EXCEPT !.ok = FALSE]
    <3>1. Ensure(s, t, l) = r
      BY <2>4 DEF Ensure
    <3>2. r \in States /\ r.ok = FALSE /\ r.available = s.available /\ r.copies = s.copies
      BY <1>1 DEF States
    <3> HIDE DEF r
    <3>3. Held(r, i)
      BY <1>1, <3>2 DEF Held
    <3> QED
      BY <2>1, <3>1, <3>2, <3>3
  <2> QED
    BY <2>2, <2>3, <2>4
<1> QED
  BY <1>2, <1>3, <1>4

LEMMA OperandsAre ==
  ASSUME Compiled, NEW i \in DOMAIN ops
  PROVE  /\ Len(Operands(ops[i])) \in Nat /\ LayoutOf(ops[i]) \in Both
         /\ DOMAIN Operands(ops[i]) = 1 .. Len(Operands(ops[i]))
         /\ {Operands(ops[i])[k] : k \in 1 .. Len(Operands(ops[i]))} \cup
              (IF ops[i].residual = None THEN {} ELSE {ops[i].residual}) = AskedOf(ops[i])
         /\ \A t \in AskedOf(ops[i]) :
              \/ t \in graph.const
              \/ t \in Consumed(ops[i]) /\ t \in All /\ Reached(t, i) /\ Needed(t, i)
<1> DEFINE o == ops[i]
<1>1. SpanRight(o) /\ graph \in Graphs /\ o.begin \in Nodes(graph)
  BY OperationFacts DEF OperationRight
<1>2. Consumed(o) = AskedOf(o) \ graph.const /\ (o.kind = "gelu" => o.residual = None)
  BY <1>1 DEF SpanRight
<1>3. \A t \in AskedOf(o) : \/ t \in graph.const
                            \/ t \in Consumed(o) /\ t \in All /\ Reached(t, i) /\ Needed(t, i)
  BY <1>2, ConsumedFacts
<1>4. LayoutOf(o) \in Both
  BY DEF LayoutOf, Both
<1>5. CASE o.kind = "gelu"
  <2>1. Operands(o) = <<ChainSource(graph, o.begin)>> /\ AskedOf(o) = {ChainSource(graph, o.begin)}
    BY <1>5 DEF Operands, AskedOf
  <2>2. /\ Len(Operands(o)) = 1 /\ DOMAIN Operands(o) = 1 .. 1 /\ 1 .. 1 = {1}
        /\ Operands(o)[1] = ChainSource(graph, o.begin)
    BY <2>1
  <2> QED
    BY <1>2, <1>3, <1>4, <1>5, <2>1, <2>2
<1>6. CASE o.kind # "gelu"
  <2>1. Operands(o) = graph.nodes[o.begin].ins
    BY <1>6 DEF Operands
  <2>2. /\ Len(Operands(o)) \in Nat /\ DOMAIN Operands(o) = 1 .. Len(Operands(o))
        /\ {Operands(o)[k] : k \in 1 .. Len(Operands(o))} = Ins(graph, o.begin)
    BY <1>1, <2>1, OperandFacts DEF Ins, Slots
  <2>3. AskedOf(o) = Ins(graph, o.begin) \cup (IF o.residual = None THEN {} ELSE {o.residual})
    BY <1>6 DEF AskedOf
  <2> QED
    BY <1>3, <1>4, <2>2, <2>3
<1> QED
  BY <1>5, <1>6

LEMMA AskedAllHeld ==
  ASSUME Ready, NEW i \in DOMAIN ops, NEW start, Held(start, i)
  PROVE  \A n \in 0 .. Len(Operands(ops[i])) :
           /\ Held(AskedAll(ops[i], start)[n], i)
           /\ AskedAll(ops[i], start)[n].ok =>
                \A k \in 1 .. n : Operands(ops[i])[k] \notin graph.const =>
                  LayoutOf(ops[i]) \in AskedAll(ops[i], start)[n].available[Operands(ops[i])[k]]
<1> DEFINE o == ops[i]
           N == Len(Operands(o))
           l == LayoutOf(o)
           A == {s \in States : Held(s, i)}
           G == [n \in 1 .. N |-> [s \in A |-> Asked(s, Operands(o)[n], l)]]
           Rule(f) == [n \in 0 .. N |->
                         IF n = 0 THEN start ELSE Asked(f[n - 1], Operands(o)[n], l)]
           v == AskedAll(o, start)
           Has(n) == v[n].ok =>
             \A k \in 1 .. n : Operands(o)[k] \notin graph.const => l \in v[n].available[Operands(o)[k]]
           S == {n \in 0 .. N : Held(v[n], i) /\ Has(n)}
<1>1. Compiled /\ N \in Nat /\ l \in Both /\ start \in A
  BY OperandsAre DEF Ready, Held
<1>2. \A n \in 1 .. N :
        Operands(o)[n] \in graph.const \/
          (Operands(o)[n] \in All /\ Reached(Operands(o)[n], i) /\ Needed(Operands(o)[n], i))
  <2> SUFFICES ASSUME NEW n \in 1 .. N
               PROVE  Operands(o)[n] \in graph.const \/
                 (Operands(o)[n] \in All /\ Reached(Operands(o)[n], i) /\ Needed(Operands(o)[n], i))
    OBVIOUS
  <2>1. Operands(o)[n] \in AskedOf(o)
    BY <1>1, OperandsAre
  <2> QED
    BY <1>1, <2>1, OperandsAre
<1> HIDE DEF N, l
<1>3. ASSUME NEW n \in 1 .. N, NEW s, Held(s, i)
      PROVE  /\ Held(Asked(s, Operands(o)[n], l), i)
             /\ Asked(s, Operands(o)[n], l).ok =>
                  /\ s.ok
                  /\ Operands(o)[n] \notin graph.const =>
                       l \in Asked(s, Operands(o)[n], l).available[Operands(o)[n]]
             /\ \A u \in All : s.available[u] \subseteq Asked(s, Operands(o)[n], l).available[u]
  <2>1. PICK t : t = Operands(o)[n]
    OBVIOUS
  <2>2. t \in graph.const \/ (t \in All /\ Reached(t, i) /\ Needed(t, i))
    BY <1>2, <2>1
  <2>3. /\ Held(Asked(s, t, l), i)
        /\ Asked(s, t, l).ok => /\ s.ok
                                /\ t \notin graph.const => l \in Asked(s, t, l).available[t]
        /\ \A u \in All : s.available[u] \subseteq Asked(s, t, l).available[u]
    BY <1>1, <1>3, <2>2, AskedHeld
  <2> QED
    BY <2>1, <2>3
<1>4. /\ G \in [1 .. N -> [A -> A]]
      /\ \A n \in 1 .. N : \A s \in A : G[n][s] = Asked(s, Operands(o)[n], l)
  <2>1. \A n \in 1 .. N : \A s \in A : Asked(s, Operands(o)[n], l) \in A
    BY <1>3 DEF Held
  <2> QED
    BY <2>1
<1> HIDE DEF G
<1>5. PICK f \in [0 .. N -> A] : Unrolls(f, N, start, G)
  <2> HIDE DEF A
  <2> QED
    BY <1>1, <1>4, Recursion
<1>6. f = Rule(f)
  <2>1. ASSUME NEW n \in 0 .. N
        PROVE  f[n] = IF n = 0 THEN start ELSE Asked(f[n - 1], Operands(o)[n], l)
    <3>1. CASE n = 0
      BY <1>5, <3>1 DEF Unrolls
    <3>2. CASE n # 0
      <4>1. n \in 1 .. N /\ n - 1 \in 0 .. N
        BY <1>1, <3>2
      <4>2. f[n - 1] \in A
        BY <4>1
      <4> HIDE DEF A
      <4> QED
        BY <1>4, <1>5, <3>2, <4>1, <4>2 DEF Unrolls
    <3> QED
      BY <3>1, <3>2
  <2> HIDE DEF A
  <2> QED
    BY <2>1, <1>5
<1>7. v = CHOOSE h : h = Rule(h)
  BY DEF AskedAll, N, l
<1>8. v = Rule(v)
  <2> HIDE DEF Rule, v
  <2> QED
    BY <1>6, <1>7
<1> HIDE DEF v, A
<1>9. v[0] = start /\ \A n \in 1 .. N : v[n] = Asked(v[n - 1], Operands(o)[n], l)
  <2>1. 0 \in 0 .. N /\ \A n \in 1 .. N : n \in 0 .. N /\ n # 0
    BY <1>1
  <2> QED
    BY <1>8, <2>1
<1>10. 0 \in S
  <2>1. 1 .. 0 = {} /\ 0 \in 0 .. N
    BY <1>1
  <2> QED
    BY <1>9, <2>1
<1>11. ASSUME NEW n \in 0 .. N - 1, n \in S PROVE n + 1 \in S
  <2> DEFINE m == n + 1
             t == Operands(o)[m]
  <2>1. m \in 1 .. N /\ m \in 0 .. N /\ m - 1 = n /\ 1 .. m = 1 .. n \cup {m}
    BY <1>1
  <2>2. v[m] = Asked(v[n], t, l)
    BY <1>9, <2>1
  <2>3. Held(v[n], i) /\ Has(n)
    BY <1>11
  <2> HIDE DEF m
  <2>4. /\ Held(v[m], i)
        /\ v[m].ok => v[n].ok /\ (t \notin graph.const => l \in v[m].available[t])
        /\ \A u \in All : v[n].available[u] \subseteq v[m].available[u]
    BY <1>3, <2>1, <2>2, <2>3
  <2>5. Has(m)
    <3> SUFFICES ASSUME v[m].ok, NEW k \in 1 .. m, Operands(o)[k] \notin graph.const
                 PROVE  l \in v[m].available[Operands(o)[k]]
      OBVIOUS
    <3>1. CASE k = m
      BY <2>4, <3>1
    <3>2. CASE k # m
      <4>1. k \in 1 .. n /\ k \in 1 .. N
        BY <1>1, <2>1, <3>2
      <4>2. l \in v[n].available[Operands(o)[k]]
        BY <2>3, <2>4, <4>1
      <4>3. Operands(o)[k] \in All
        BY <1>2, <4>1
      <4> QED
        BY <2>4, <4>2, <4>3
    <3> QED
      BY <3>1, <3>2
  <2> QED
    BY <2>1, <2>4, <2>5 DEF m
<1>12. 0 .. N \subseteq S
  <2> HIDE DEF S
  <2> QED
    BY <1>1, <1>10, <1>11, Induction
<1> QED
  BY <1>12 DEF v, N, l

LEMMA EnsuredHeld ==
  ASSUME Ready, NEW i \in DOMAIN ops, ~GeluOnNchw(ops[i]),
         Held([available |-> available, copies |-> copies, ok |-> TRUE], i)
  PROVE  /\ Held(Ensured(ops[i]), i)
         /\ Ensured(ops[i]).ok => \A t \in Consumed(ops[i]) :
                                    LayoutOf(ops[i]) \in Ensured(ops[i]).available[t]
<1> DEFINE o == ops[i]
           N == Len(Operands(o))
           l == LayoutOf(o)
           start == [available |-> available, copies |-> copies, ok |-> TRUE]
           s == AskedAll(o, start)[N]
           r == Ensured(o)
<1>1. Compiled /\ N \in 0 .. N /\ l \in Both
  <2>1. N \in Nat /\ l \in Both
    BY OperandsAre DEF Ready
  <2> HIDE DEF N
  <2> QED
    BY <2>1 DEF Ready
<1>2. /\ Held(s, i)
      /\ s.ok => \A k \in 1 .. N : Operands(o)[k] \notin graph.const =>
                   l \in s.available[Operands(o)[k]]
  <2>1. Held(start, i)
    OBVIOUS
  <2> HIDE DEF start
  <2> QED
    BY <1>1, <2>1, AskedAllHeld
<1>3. r = IF o.residual = None THEN s ELSE Asked(s, o.residual, l)
  BY Zenon DEF Ensured
<1>4. SpanRight(o)
  BY <1>1, OperationFacts DEF OperationRight
<1>5. Consumed(o) = AskedOf(o) \ graph.const
  BY <1>4 DEF SpanRight
<1>6. {Operands(o)[k] : k \in 1 .. N} \cup
        (IF o.residual = None THEN {} ELSE {o.residual}) = AskedOf(o)
  BY <1>1, OperandsAre
<1>7. \A t \in AskedOf(o) : t \in graph.const \/ (t \in All /\ Reached(t, i) /\ Needed(t, i))
  BY <1>1, OperandsAre
<1> HIDE DEF s, r, N, l
<1>8. CASE o.residual = None
  <2>1. r = s /\ AskedOf(o) = {Operands(o)[k] : k \in 1 .. N}
    BY <1>3, <1>6, <1>8
  <2>2. Held(r, i) /\ (r.ok => \A t \in Consumed(o) : l \in r.available[t])
    BY <1>2, <1>5, <2>1
  <2> QED
    BY <2>2 DEF l, r
<1>9. CASE o.residual # None
  <2>1. o.residual \in graph.const \/
          (o.residual \in All /\ Reached(o.residual, i) /\ Needed(o.residual, i))
    BY <1>6, <1>7, <1>9
  <2>2. r = Asked(s, o.residual, l)
    BY <1>3, <1>9
  <2>3. PICK t : t = o.residual
    OBVIOUS
  <2>4. /\ Held(r, i)
        /\ r.ok => s.ok /\ (t \notin graph.const => l \in r.available[t])
        /\ \A u \in All : s.available[u] \subseteq r.available[u]
    BY <1>1, <1>2, <2>1, <2>2, <2>3, AskedHeld
  <2>5. ASSUME r.ok, NEW u \in Consumed(o) PROVE l \in r.available[u]
    <3>1. u \in AskedOf(o) /\ u \notin graph.const /\ u \in All
      BY <1>5, <1>7, <2>5
    <3>2. CASE u = t
      BY <2>4, <2>5, <3>1, <3>2
    <3>3. CASE u # t
      <4>1. PICK k \in 1 .. N : u = Operands(o)[k]
        BY <1>6, <1>9, <2>3, <3>1, <3>3
      <4> QED
        BY <1>2, <2>4, <2>5, <3>1, <4>1
    <3> QED
      BY <3>2, <3>3
  <2> QED
    BY <2>4, <2>5 DEF l, r
<1> QED
  BY <1>8, <1>9 DEF l, r

(* The GELU on NCHW asks for nothing and finds its source there: the       *)
(* planner has put what it reads on NCHW as well.                          *)
LEMMA GeluFinds ==
  ASSUME Ready, NEW i \in DOMAIN ops, GeluOnNchw(ops[i]), NEW s, Held(s, i),
         entry = "NHWC" => InputCanStartNhwc(graph),
         NEW t \in Consumed(ops[i])
  PROVE  "NCHW" \in s.available[t]
<1> DEFINE n == ops[i].begin
<1>1. Compiled /\ SpanRight(ops[i]) /\ ops[i].kind = "gelu" /\ layouts.layout[n] = "NCHW"
  BY OperationFacts DEF Ready, OperationRight, GeluOnNchw
<1>2. FastGelu(n) /\ n \in Nodes(graph) /\ Consumed(ops[i]) = AskedOf(ops[i]) \ graph.const
  BY <1>1 DEF SpanRight
<1>3. t = ChainSource(graph, n) /\ t \notin graph.const
  BY <1>1, <1>2 DEF AskedOf
<1>4. t \in All /\ Reached(t, i)
  BY <1>1, ConsumedFacts
<1>5. s \in States /\ Honest(s.available, i) /\ s.available[t] # {} /\ graph \in Graphs
  BY <1>1, <1>4, ReachedHas DEF Held, Compiled, StaticInv
<1>6. CASE t \in graph.neutral
  BY <1>4, <1>5, <1>6 DEF Honest, Both
<1>7. CASE t \notin graph.neutral
  <2>1. /\ MatchesGelu(graph, n) /\ Rank4(graph, OutOf(n + 4))
        /\ Same(graph, t, OutOf(n + 4))
    BY <1>2, <1>3, Zenon DEF FastGelu, GeluAt
  <2>2. n \in Nat /\ n + 4 \in Nodes(graph) /\ t \in Ins(graph, n)
    <3>1. 4 \in 0 .. 4
      OBVIOUS
    <3> QED
      BY <1>1, <1>2, <1>3, <3>1, GeluSpan DEF Compiled
  <2>3. Same(graph, t, Out(graph, n)) /\ Out(graph, n) \in Tensors(graph)
        /\ OutOf(n + 4) \in Tensors(graph)
    BY <1>2, <1>3, <1>5, <2>1, <2>2, ShapesAssumption, GraphFacts DEF OutOf
  <2>4. Rank4(graph, t) /\ Rank4(graph, Out(graph, n))
    <3>1. graph.rank[t] = graph.rank[OutOf(n + 4)] /\ graph.rank[t] = graph.rank[Out(graph, n)]
      BY <1>4, <1>5, <2>1, <2>3, ShapesAssumption DEF All
    <3> QED
      BY <2>1, <3>1 DEF Rank4
  <2>5. graph.nodes[n].op = "div" /\ ConstantScalar(graph, graph.nodes[n].ins[2])
    <3>1. 0 \in 0 .. 4 /\ n + 0 = n /\ Chain[0 + 1] = "div"
      BY <2>2 DEF Chain
    <3> QED
      BY <2>1, <3>1 DEF MatchesGelu
  <2>6. NhwcCapable(graph, n)
    <3>1. BinaryCompatible(graph, n)
      BY <2>5 DEF BinaryCompatible, ChannelBroadcast, ConstantScalar
    <3>2. graph.nodes[n].op \in Binary
      BY <2>5 DEF Binary
    <3>3. graph.nodes[n].ins[1] = t /\ graph.nodes[n].out = Out(graph, n)
      BY <1>3 DEF ChainSource, Out
    <3> QED
      BY <2>3, <2>4, <3>1, <3>2, <3>3, Zenon DEF NhwcCapable
  <2>7. t \in ActivationInputs(graph, n)
    BY <1>3, <1>7, <2>2 DEF ActivationInputs
  <2>8. layouts = LayoutPlan(graph, TRUE)
    BY <1>1 DEF Compiled, StaticInv
  <2>9. /\ t = graph.input => ~InputCanStartNhwc(graph)
        /\ \A m \in Nodes(graph) : Out(graph, m) = t => layouts.layout[m] = "NCHW"
    BY <1>1, <1>2, <1>5, <2>6, <2>7, <2>8, LayoutsKept
  <2>10. CASE t = graph.input
    <3>1. entry = "NCHW"
      BY <2>9, <2>10 DEF Ready, Both
    <3> QED
      BY <1>5, <2>10, <3>1 DEF Honest
  <2>11. CASE t # graph.input
    <3>1. PICK j \in DOMAIN ops : j < i /\ t = ops[j].out
      BY <1>4, <2>11 DEF Reached
    <3>2. SpanRight(ops[j]) /\ EndOf(ops[j]) \in Nodes(graph) /\ Out(graph, EndOf(ops[j])) = t
      BY <1>1, <3>1, OperationFacts DEF OperationRight, OutOf
    <3>3. layouts.layout[EndOf(ops[j])] = "NCHW"
      BY <2>9, <3>2
    <3>4. layouts.layout[ops[j].begin] = "NCHW"
      BY <3>2, <3>3 DEF SpanRight
    <3>5. ops[j].kind \in {"generic", "gelu"}
      BY <3>2, <3>4 DEF SpanRight
    <3>6. LayoutOf(ops[j]) = "NCHW"
      BY <3>4, <3>5 DEF LayoutOf, GeluOnNchw
    <3> QED
      BY <1>5, <3>1, <3>6 DEF Honest
  <2> QED
    BY <2>10, <2>11
<1> QED
  BY <1>6, <1>7

LEMMA ReadsHeld ==
  ASSUME Ready, NEW i \in DOMAIN ops, ~Refused(ops[i]),
         entry = "NHWC" => InputCanStartNhwc(graph),
         Held([available |-> available, copies |-> copies, ok |-> TRUE], i)
  PROVE  /\ Held(Ensured(ops[i]), i)
         /\ \A t \in Consumed(ops[i]) : LayoutOf(ops[i]) \in Ensured(ops[i]).available[t]
<1> DEFINE start == [available |-> available, copies |-> copies, ok |-> TRUE]
<1>1. CASE GeluOnNchw(ops[i])
  <2>1. Ensured(ops[i]) = start
    BY <1>1, Zenon DEF Ensured
  <2>2. LayoutOf(ops[i]) = "NCHW" /\ Held(start, i)
    BY <1>1 DEF LayoutOf
  <2> HIDE DEF start
  <2>3. \A t \in Consumed(ops[i]) : "NCHW" \in start.available[t]
    BY <1>1, <2>2, GeluFinds
  <2> QED
    BY <2>1, <2>2, <2>3
<1>2. CASE ~GeluOnNchw(ops[i])
  <2>1. Ensured(ops[i]).ok
    BY Zenon DEF Refused
  <2> QED
    BY <1>2, <2>1, EnsuredHeld
<1> QED
  BY <1>1, <1>2

(* What writing an operation's result leaves.                              *)
LEMMA WriteKeeps ==
  ASSUME Ready, NEW i \in DOMAIN ops,
         LayoutOf(ops[i]) = "NHWC" => HasNhwcPlace(ops[i].out),
         NEW s, Held(s, i), NEW u \in All, NEW k \in s.available[u], Needed(u, i),
         /\ InSession(u)
         /\ ops[i].out \in graph.neutral \/ LayoutOf(ops[i]) = "NCHW"
         => EndOf(ops[i]) <= LastUse(u)
  PROVE  u # ops[i].out /\ Copy(u, k) \in Left(s.copies, ops[i].out, LayoutOf(ops[i]))
<1> DEFINE l == LayoutOf(ops[i])
           t == ops[i].out
<1>1. /\ Compiled /\ s \in States /\ Honest(s.available, i)
      /\ Copy(u, k) \in s.copies /\ k \in Both /\ l \in Both
  BY OperandsAre DEF Ready, Held, Current, States
<1>2. Reached(u, i) /\ ("NHWC" \in s.available[u] /\ u \notin graph.neutral => place[u] >= 0)
  BY <1>1 DEF Honest
<1>3. t \in All /\ Birth(t) = EndOf(ops[i]) /\ Life(t).first = i
  BY <1>1, BirthOf
<1>4. u # t /\ Birth(u) < ops[i].begin /\ Life(u).first <= i
  BY <1>1, <1>2, ReachedFacts
<1>5. i \in Nat /\ i <= Life(t).last /\ i <= Life(u).last
  <2>1. i <= Life(u).last
    BY <1>1, NeededFacts, SpanFacts, LifeFacts, OperationFacts
  <2>2. Life(t).first <= Life(t).last
    BY <1>1, <1>3, LifeFacts
  <2> QED
    BY <1>1, <1>3, <2>1, <2>2, SpanFacts
<1> HIDE DEF l, t
<1>6. t \notin graph.neutral /\ l = "NHWC" /\ u \notin graph.neutral /\ k = "NHWC"
        => ~Overlapping(t, u)
  <2> SUFFICES ASSUME t \notin graph.neutral, l = "NHWC", u \notin graph.neutral, k = "NHWC"
               PROVE  ~Overlapping(t, u)
    OBVIOUS
  <2>1. place[t] >= 0
    BY Zenon DEF HasNhwcPlace, l, t
  <2>2. place[u] >= 0
    BY <1>2
  <2>3. Life(t).first <= i
    BY <1>3, <1>5
  <2> QED
    BY <1>3, <1>4, <1>5, <2>1, <2>2, <2>3, PlacesApart
<1>7. (t \in graph.neutral \/ l = "NCHW") /\ InSession(u) => ~SessionMayShare(t, u)
  <2> SUFFICES ASSUME t \in graph.neutral \/ l = "NCHW", InSession(u)
               PROVE  ~SessionMayShare(t, u)
    OBVIOUS
  <2>1. EndOf(ops[i]) <= LastUse(u)
    BY DEF l, t
  <2>2. /\ LastUse(u) \in Nat /\ LastUse(t) \in Nat /\ Birth(u) \in Nat /\ Birth(t) \in Nat
        /\ Birth(t) <= LastUse(t)
    BY <1>1, <1>3, LifeFacts
  <2>3. ops[i].begin \in Nat /\ EndOf(ops[i]) \in Nat /\ ops[i].begin <= EndOf(ops[i])
    BY <1>1, SpanFacts
  <2> QED
    BY <1>3, <1>4, <2>1, <2>2, <2>3 DEF SessionMayShare
<1>8. Copy(u, k) \in Left(s.copies, t, l)
  BY <1>1, <1>4, <1>6, <1>7, LeftKeeps
<1> QED
  BY <1>4, <1>8 DEF l, t

LEMMA GoodHolds ==
  ASSUME Ready, NEW i \in DOMAIN ops, ~Refused(ops[i]),
         entry = "NHWC" => InputCanStartNhwc(graph),
         Held([available |-> available, copies |-> copies, ok |-> TRUE], i)
  PROVE  Good(ops[i], Ensured(ops[i]))
<1>1. PICK o, s, l : o = ops[i] /\ s = Ensured(ops[i]) /\ l = LayoutOf(ops[i])
  OBVIOUS
<1>2. Held(s, i) /\ \A t \in Consumed(o) : l \in s.available[t]
  BY <1>1, ReadsHeld
<1>3. /\ Compiled /\ OperationRight(o) /\ SpanRight(o) /\ WeightsRight(o)
      /\ \A t \in Consumed(o) : /\ t \in All /\ Needed(t, i) /\ LastUse(t) \in Nat
                                /\ o.begin <= LastUse(t)
  <2>1. Compiled
    BY DEF Ready
  <2> QED
    BY <1>1, <2>1, OperationFacts, ConsumedFacts DEF OperationRight
<1>4. Reads(o, s.copies)
  BY <1>1, <1>2, <1>3 DEF Reads, Held, Current
<1>5. CASE ~GeluOnNchw(o)
  <2>1. o.out \in graph.neutral \/ l = "NCHW" => EndOf(o) = o.begin
    <3>1. SUFFICES ASSUME o.count > 1 PROVE o.out \notin graph.neutral /\ l # "NCHW"
      <4>1. o.count \in Nat \ {0} /\ o.begin \in Nat
        BY <1>3 DEF SpanRight, Operations
      <4>2. ~(o.count > 1) => EndOf(o) = o.begin
        BY <4>1 DEF EndOf
      <4> QED
        BY <4>2
    <3>0. /\ o.kind \in Convs \cup {"gelu"}
          /\ layouts.layout[o.begin] = "NHWC" => o.out \notin graph.neutral
      BY <1>3, <3>1, Zenon DEF SpanRight
    <3>2. o.kind \in Convs \cup {"gelu"}
      BY <3>0
    <3>3. l = "NHWC"
      BY <1>1, <1>5, <3>2 DEF LayoutOf, Convs
    <3>4. layouts.layout[o.begin] = "NHWC"
      <4>1. CASE o.kind = "gelu"
        <5>1. layouts.layout[o.begin] # "NCHW"
          BY <1>5, <4>1 DEF GeluOnNchw
        <5>2. layouts.layout[o.begin] \in Both
          <6>1. layouts.layout \in [Nodes(graph) -> Both] /\ o.begin \in Nodes(graph)
            BY <1>3, LayoutsAre DEF Compiled, StaticInv, SpanRight
          <6> QED
            BY <6>1
        <5> QED
          BY <5>1, <5>2 DEF Both
      <4>2. CASE o.kind # "gelu"
        BY <1>3, <3>2, <4>2 DEF SpanRight, Convs
      <4> QED
        BY <4>1, <4>2
    <3> QED
      BY <3>0, <3>3, <3>4
  <2>2. l = "NHWC" => HasNhwcPlace(o.out)
    BY <1>1, Zenon DEF Refused
  <2>3. ASSUME NEW t \in Consumed(o)
        PROVE  Copy(t, l) \in Left(s.copies, o.out, l)
    <3>1. /\ InSession(t) /\ (o.out \in graph.neutral \/ l = "NCHW")
          => EndOf(o) <= LastUse(t)
      BY <1>3, <2>1
    <3>2. t \in All /\ Needed(t, i) /\ l \in s.available[t]
      BY <1>2, <1>3
    <3> QED
      BY <1>1, <1>2, <2>2, <3>1, <3>2, WriteKeeps
  <2>4. Reads(o, Left(s.copies, o.out, l))
    BY <1>1, <2>3 DEF Reads
  <2> QED
    BY <1>1, <1>3, <1>4, <2>4, Zenon DEF Good
<1>6. CASE GeluOnNchw(o)
  BY <1>1, <1>3, <1>4, <1>6, Zenon DEF Good
<1> QED
  BY <1>5, <1>6

LEMMA WrittenHeld ==
  ASSUME Ready, NEW i \in DOMAIN ops,
         LayoutOf(ops[i]) = "NHWC" => HasNhwcPlace(ops[i].out),
         NEW s, Held(s, i)
  PROVE  LET l == LayoutOf(ops[i])
             av == [s.available EXCEPT ![ops[i].out] = Published(ops[i].out, l)]
             cp == Left(s.copies, ops[i].out, l) \cup {Copy(ops[i].out, l)}
         IN  /\ av \in [All -> SUBSET Both] /\ cp \in SUBSET (All \X Both)
             /\ Honest(av, i + 1) /\ Current(av, cp, i + 1)
<1> DEFINE l == LayoutOf(ops[i])
           t == ops[i].out
           av == [s.available EXCEPT ![t] = Published(t, l)]
           cp == Left(s.copies, t, l) \cup {Copy(t, l)}
<1>1. /\ Compiled /\ s \in States /\ Honest(s.available, i) /\ Current(s.available, s.copies, i)
      /\ l \in Both
  BY OperandsAre DEF Ready, Held
<1>2. t \in All /\ t # graph.input /\ \A j \in DOMAIN ops : ops[j].out = t => j = i
  BY <1>1, BirthOf
<1>3. i \in Nat /\ \A j \in DOMAIN ops : j < i + 1 <=> j < i \/ j = i
  <2>1. \A j \in DOMAIN ops : j \in Nat
    BY <1>1, SpanFacts
  <2> QED
    BY <2>1
<1>4. l = "NHWC" => t \in graph.neutral \/ (place[t] >= 0 /\ Rank4(graph, t))
  <2>1. l = "NHWC" /\ t \notin graph.neutral => place[t] >= 0
    BY Zenon DEF HasNhwcPlace
  <2>2. place[t] >= 0 => Rank4(graph, t)
    <3>1. place[t] >= 0 => NeedsNhwc(t)
      BY <1>2 DEF Ready
    <3> QED
      BY <3>1 DEF NeedsNhwc, IsMap
  <2> HIDE DEF l, t
  <2> QED
    BY <2>1, <2>2
<1>5. Published(t, l) \in SUBSET Both /\ l \in Published(t, l)
      /\ (t \in graph.neutral => Published(t, l) = Both)
      /\ (t \notin graph.neutral => Published(t, l) = {l})
  BY <1>1 DEF Published
<1>6. Copy(t, l) \in All \X Both
  BY <1>1, <1>2 DEF Copy, Both
<1> HIDE DEF l, t
<1>7. av \in [All -> SUBSET Both] /\ cp \in SUBSET (All \X Both)
  <2>1. s.available \in [All -> SUBSET Both] /\ s.copies \in SUBSET (All \X Both)
    BY <1>1 DEF States
  <2>2. Left(s.copies, t, l) \subseteq s.copies
    BY DEF Left
  <2> QED
    BY <1>5, <1>6, <2>1, <2>2
<1>8. av[t] = Published(t, l) /\ \A u \in All \ {t} : av[u] = s.available[u]
  BY <1>1, <1>2 DEF States
<1>9. Honest(av, i + 1)
  <2>1. entry \in av[graph.input]
    BY <1>1, <1>2, <1>8, BirthOf DEF Honest
  <2>2. ASSUME NEW j \in DOMAIN ops, j < i + 1
        PROVE  LayoutOf(ops[j]) \in av[ops[j].out]
    <3>1. CASE j = i
      BY <1>5, <1>8, <3>1 DEF l, t
    <3>2. CASE j # i
      BY <1>1, <1>2, <1>3, <1>8, <2>2, <3>2, BirthOf DEF Honest
    <3> QED
      BY <3>1, <3>2
  <2>3. ASSUME NEW u \in All, av[u] # {}
        PROVE  /\ Reached(u, i + 1)
               /\ u \in graph.neutral => av[u] = Both
               /\ Rank4(graph, u) \/ "NCHW" \in av[u]
               /\ "NHWC" \in av[u] /\ u \notin graph.neutral => place[u] >= 0
    <3>1. CASE u = t
      <4>1. Reached(u, i + 1)
        BY <1>3, <3>1 DEF Reached, t
      <4>2. CASE t \in graph.neutral
        BY <1>5, <1>8, <3>1, <4>1, <4>2 DEF Both
      <4>3. CASE t \notin graph.neutral
        BY <1>1, <1>4, <1>5, <1>8, <3>1, <4>1, <4>3 DEF Both
      <4> QED
        BY <4>2, <4>3
    <3>2. CASE u # t
      <4>1. av[u] = s.available[u] /\ Reached(u, i)
        BY <1>1, <1>8, <2>3, <3>2 DEF Honest
      <4>2. Reached(u, i + 1)
        BY <1>3, <4>1 DEF Reached
      <4> QED
        BY <1>1, <2>3, <4>1, <4>2 DEF Honest
    <3> QED
      BY <3>1, <3>2
  <2> HIDE DEF av
  <2> QED
    BY <2>1, <2>2, <2>3 DEF Honest
<1>10. Current(av, cp, i + 1)
  <2>1. SUFFICES ASSUME NEW u \in All, NEW k \in av[u], Needed(u, i + 1)
                 PROVE  Copy(u, k) \in cp
    BY DEF Current
  <2>2. CASE u = t
    BY <1>5, <1>8, <2>2 DEF Copy
  <2>3. CASE u # t
    <3>1. k \in s.available[u] /\ Needed(u, i) /\ (Birth(u) # 0 => EndOf(ops[i]) < LastUse(u))
      BY <1>1, <1>8, <2>1, <2>3, NeededFacts
    <3>2. InSession(u) => EndOf(ops[i]) <= LastUse(u)
      <4>1. EndOf(ops[i]) \in Nat /\ LastUse(u) \in Nat
        BY <1>1, SpanFacts, LifeFacts
      <4> QED
        BY <3>1, <4>1 DEF InSession
    <3>3. Copy(u, k) \in Left(s.copies, ops[i].out, LayoutOf(ops[i]))
      BY <3>1, <3>2, WriteKeeps
    <3> QED
      BY <3>3 DEF l, t
  <2> QED
    BY <2>2, <2>3
<1> HIDE DEF av, cp
<1> QED
  BY <1>7, <1>9, <1>10 DEF av, cp, l, t

-----------------------------------------------------------------------------
(* Runs.                                                                   *)

RunInv ==
  pc = "run" =>
    /\ at \in Nat \ {0} /\ entry \in Both
    /\ entry = "NHWC" => InputCanStartNhwc(graph)
    /\ Held([available |-> available, copies |-> copies, ok |-> TRUE], at)
    /\ graph.input \in computed
    /\ \A j \in DOMAIN ops : j < at => {OutOf(n) : n \in Nodeset(ops[j])} \subseteq computed

(* The inductive invariant: what the plan is, and what a run of it holds.  *)
IInv == PlanInv /\ RunInv

LEMMA Placed ==
  ASSUME PlanInv, pc \in {"ready", "run", "done"}
  PROVE  Compiled /\ Valid /\ \A t \in All : place[t] >= 0 <=> NeedsNhwc(t)
<1>1. Compiled
  BY DEF PlanInv, CompileInv, Compiled
<1>2. /\ Valid /\ Waiting = {} /\ place \in [All -> Nat \cup {-1}]
      /\ \A t \in All : place[t] # -1 => NeedsNhwc(t)
  BY DEF PlanInv, PlaceInv
<1>3. ASSUME NEW t \in All
      PROVE  place[t] >= 0 <=> NeedsNhwc(t)
  <2>1. NeedsNhwc(t) => place[t] # -1
    BY <1>2 DEF Waiting
  <2>2. place[t] \in Nat \cup {-1}
    BY <1>2
  <2>3. place[t] >= 0 <=> place[t] # -1
    BY <2>2
  <2> QED
    BY <1>2, <2>1, <2>3
<1> QED
  BY <1>1, <1>2, <1>3

LEMMA RunIsReady ==
  ASSUME IInv, pc = "run"
  PROVE  Ready
BY Placed DEF IInv, RunInv, Ready

LEMMA SameHeld ==
  ASSUME UNCHANGED <<graph, layouts, ops, place, entry>>
  PROVE  \A s, i : Held(s, i)' <=> Held(s, i)
<1>1. \A o : LayoutOf(o)' = LayoutOf(o)
  BY DEF LayoutOf, GeluOnNchw
<1>2. \A t, i : (Reached(t, i)' <=> Reached(t, i)) /\ (Needed(t, i)' <=> Needed(t, i))
  BY SamePlan DEF Reached, Needed
<1>3. \A t, l : Copy(t, l)' = Copy(t, l)
  BY DEF Copy
<1>4. \A av, i : Honest(av, i)' <=> Honest(av, i)
  BY <1>1, <1>2 DEF Honest, All
<1>5. \A av, cp, i : Current(av, cp, i)' <=> Current(av, cp, i)
  BY <1>2, <1>3 DEF Current, All
<1> QED
  BY <1>4, <1>5 DEF Held, States, All

LEMMA BeginStep ==
  ASSUME IInv, Begin
  PROVE  RunInv'
<1> DEFINE x == graph.input
<1>1. /\ pc' = "run" /\ at' = 1 /\ UNCHANGED <<graph, layouts, ops, place>>
      /\ available' = [t \in All |-> IF t = x THEN Published(t, entry') ELSE {}]
      /\ copies' = {Copy(x, entry')} /\ computed' = {x}
  BY DEF Begin, planning
<1>2. Compiled /\ \A t \in All : place[t] >= 0 <=> NeedsNhwc(t)
  BY Placed DEF IInv, Begin
<1>3. /\ entry' \in Both
      /\ entry' = "NHWC" => InputCanStartNhwc(graph) /\ "NHWC" \in layouts.available[x]
  BY Zenon DEF Begin, Both
<1>4. x \in All /\ \A i \in DOMAIN ops : i \in Nat \ {0} /\ ops[i].out # x
  BY <1>2, BirthOf, OperationFacts
<1>5. x \notin Elided
  <2>1. \A n \in UNION {Nodeset(ops[i]) : i \in DOMAIN ops} : OutOf(n) # x
    <3>1. \A n \in Nodes(graph) : OutOf(n) # x
      BY <1>2, OperationFacts, GraphFacts DEF OutOf
    <3> QED
      BY <1>2, <3>1, SpanFacts
  <2> QED
    BY <2>1 DEF Elided
<1>6. entry' = "NHWC" => /\ Rank4(graph, x) /\ x \notin graph.neutral
                         /\ place[x] >= 0
  BY <1>2, <1>3, <1>4, <1>5 DEF InputCanStartNhwc, IsMap, NeedsNhwc
<1>7. /\ Published(x, entry') \in SUBSET Both /\ entry' \in Published(x, entry')
      /\ x \in graph.neutral => Published(x, entry') = Both
      /\ x \notin graph.neutral => Published(x, entry') = {entry'}
  BY <1>3 DEF Published
<1>8. Copy(x, entry') \in All \X Both
  BY <1>3, <1>4 DEF Copy, Both
<1>9. /\ available' \in [All -> SUBSET Both] /\ copies' \in SUBSET (All \X Both)
      /\ available'[x] = Published(x, entry') /\ \A t \in All \ {x} : available'[t] = {}
  BY <1>1, <1>4, <1>7, <1>8
<1>10. Honest(available, at)'
  <2>1. entry' \in available'[graph'.input]
    BY <1>1, <1>7, <1>9
  <2>2. \A j \in DOMAIN ops : ~(j < 1)
    BY <1>4
  <2>3. ASSUME NEW t \in All, available'[t] # {}
        PROVE  /\ t = x
               /\ t \in graph.neutral => available'[t] = Both
               /\ Rank4(graph, t) \/ "NCHW" \in available'[t]
               /\ "NHWC" \in available'[t] /\ t \notin graph.neutral => place[t] >= 0
    BY <1>3, <1>6, <1>7, <1>9, <2>3 DEF Both
  <2> QED
    BY <1>1, <2>1, <2>2, <2>3 DEF Honest, Reached, All
<1>11. Current(available, copies, at)'
  <2>1. \A t \in All : \A l \in available'[t] : <<t, IF t \in graph.neutral THEN "NCHW" ELSE l>> \in copies'
    BY <1>1, <1>7, <1>9 DEF Copy
  <2> QED
    BY <1>1, <2>1 DEF Current, Copy, All
<1>12. Held([available |-> available, copies |-> copies, ok |-> TRUE], at)'
  BY <1>1, <1>9, <1>10, <1>11 DEF Held, States, All
<1> QED
  BY <1>1, <1>2, <1>3, <1>4, <1>12 DEF RunInv

(* An operation that is not refused is good, and writes its result.        *)
LEMMA PerformIs ==
  ASSUME IInv, RunOp
  PROVE  /\ Ready /\ at \in DOMAIN ops /\ at' = at + 1
         /\ UNCHANGED <<graph, layouts, ops, place, entry, pc>> /\ pc = "run"
         /\ LET o == ops[at]
                s == Ensured(o)
                l == LayoutOf(o)
            IN  /\ Held(s, at) /\ (l = "NHWC" => HasNhwcPlace(o.out))
                /\ available' = [s.available EXCEPT ![o.out] = Published(o.out, l)]
                /\ copies' = Left(s.copies, o.out, l) \cup {Copy(o.out, l)}
                /\ computed' = computed \cup {OutOf(n) : n \in Nodeset(o)}
<1>1. PICK kinds : Perform(kinds)
  BY DEF RunOp, RunGeneric, RunConv, RunDepthwise, RunElementwise, RunMapWise, RunGelu
<1> DEFINE o == ops[at]
           s == Ensured(o)
           l == LayoutOf(o)
           left == Left(s.copies, o.out, l)
<1>2. /\ pc = "run" /\ at <= Len(ops) /\ ~Refused(o) /\ at' = at + 1
      /\ UNCHANGED <<graph, layouts, ops, place, entry, pc>>
      /\ available' = [s.available EXCEPT ![o.out] = Published(o.out, l)]
      /\ copies' = IF Good(o, s) THEN left \cup {Copy(o.out, l)} ELSE left
      /\ computed' = IF Good(o, s) THEN computed \cup {OutOf(n) : n \in Nodeset(o)}
                                   ELSE computed
  BY <1>1 DEF Perform, planning
<1>3. Ready
  BY <1>2, RunIsReady
<1>4. at \in DOMAIN ops
  <2>1. at \in Nat \ {0}
    BY <1>2 DEF IInv, RunInv
  <2> QED
    BY <1>2, <1>3, <2>1, OperationFacts DEF Ready
<1>5. /\ Held([available |-> available, copies |-> copies, ok |-> TRUE], at)
      /\ entry = "NHWC" => InputCanStartNhwc(graph)
  BY <1>2 DEF IInv, RunInv
<1>6. Good(o, s) /\ Held(s, at)
  BY <1>2, <1>3, <1>4, <1>5, GoodHolds, ReadsHeld
<1>7. l = "NHWC" => HasNhwcPlace(o.out)
  BY <1>2, Zenon DEF Refused
<1> HIDE DEF o, s, l, left
<1>8. /\ copies' = left \cup {Copy(o.out, l)}
      /\ computed' = computed \cup {OutOf(n) : n \in Nodeset(o)}
  BY <1>2, <1>6
<1> QED
  BY <1>2, <1>3, <1>4, <1>6, <1>7, <1>8 DEF o, s, l, left

LEMMA PerformStep ==
  ASSUME IInv, RunOp
  PROVE  RunInv'
<1>1. PICK i, o, s, l : i = at /\ o = ops[at] /\ s = Ensured(o) /\ l = LayoutOf(o)
  OBVIOUS
<1>2. PICK av, cp : av = available' /\ cp = copies'
  OBVIOUS
<1>3. /\ Ready /\ i \in DOMAIN ops /\ at' = i + 1 /\ o = ops[i] /\ pc = "run"
      /\ UNCHANGED <<graph, layouts, ops, place, entry, pc>>
      /\ Held(s, i) /\ (l = "NHWC" => HasNhwcPlace(o.out))
      /\ av = [s.available EXCEPT ![o.out] = Published(o.out, l)]
      /\ cp = Left(s.copies, o.out, l) \cup {Copy(o.out, l)}
      /\ computed' = computed \cup {OutOf(n) : n \in Nodeset(o)}
  BY <1>1, <1>2, PerformIs
<1>4. /\ av \in [All -> SUBSET Both] /\ cp \in SUBSET (All \X Both)
      /\ Honest(av, i + 1) /\ Current(av, cp, i + 1)
  BY <1>1, <1>3, WrittenHeld
<1>5. PICK r : r = [available |-> av, copies |-> cp, ok |-> TRUE]
  OBVIOUS
<1>6. Held(r, i + 1)
  <2>1. r \in States /\ r.available = av /\ r.copies = cp
    BY <1>4, <1>5 DEF States
  <2> QED
    BY <1>4, <2>1 DEF Held
<1>7. Held(r, i + 1)'
  BY <1>3, <1>6, SameHeld
<1>8. Held([available |-> available, copies |-> copies, ok |-> TRUE], at)'
  BY <1>2, <1>3, <1>5, <1>7
<1>9. i \in Nat \ {0} /\ \A j \in DOMAIN ops : j \in Nat
  BY <1>3, OperationFacts DEF Ready
<1>10. /\ entry \in Both /\ (entry = "NHWC" => InputCanStartNhwc(graph))
       /\ graph.input \in computed
       /\ \A j \in DOMAIN ops : j < i => {OutOf(n) : n \in Nodeset(ops[j])} \subseteq computed
  BY <1>1, <1>3 DEF IInv, RunInv
<1>11. \A j \in DOMAIN ops : j < i + 1 => {OutOf(n) : n \in Nodeset(ops[j])} \subseteq computed'
  <2> SUFFICES ASSUME NEW j \in DOMAIN ops, j < i + 1
               PROVE  {OutOf(n) : n \in Nodeset(ops[j])} \subseteq computed'
    OBVIOUS
  <2>1. CASE j < i
    BY <1>3, <1>10, <2>1
  <2>2. CASE ~(j < i)
    <3>1. j = i
      BY <1>9, <2>2
    <3> QED
      BY <1>3, <3>1
  <2> QED
    BY <2>1, <2>2
<1>12. \A n : OutOf(n)' = OutOf(n)
  BY <1>3 DEF OutOf
<1>13. \A j \in DOMAIN ops : j < i + 1 => {OutOf(n)' : n \in Nodeset(ops[j])} \subseteq computed'
  BY <1>11, <1>12
<1>14. (\A j \in DOMAIN ops : j < at => {OutOf(n) : n \in Nodeset(ops[j])} \subseteq computed)'
  BY <1>3, <1>13
<1> QED
  BY <1>3, <1>8, <1>9, <1>10, <1>14 DEF RunInv

LEMMA Inductive ==
  ASSUME IInv, [Next]_vars
  PROVE  IInv'
<1>1. PlanInv'
  BY PlanStep DEF IInv
<1>2. CASE Begin
  BY <1>1, <1>2, BeginStep DEF IInv
<1>3. CASE RunOp
  BY <1>1, <1>3, PerformStep DEF IInv
<1>4. CASE pc' # "run"
  BY <1>1, <1>4 DEF IInv, RunInv
<1>5. CASE UNCHANGED vars
  <2>1. UNCHANGED <<graph, layouts, ops, place, entry, pc, at, available, copies, computed>>
    BY <1>5 DEF vars, planning, running
  <2>2. PICK i, r : i = at /\ r = [available |-> available, copies |-> copies, ok |-> TRUE]
    OBVIOUS
  <2>3. pc = "run" => Held(r, i)'
    BY <2>1, <2>2, SameHeld DEF IInv, RunInv
  <2>4. pc = "run" => Held([available |-> available, copies |-> copies, ok |-> TRUE], at)'
    BY <2>1, <2>2, <2>3
  <2>5. pc = "run" => /\ at \in Nat \ {0} /\ entry \in Both
                      /\ entry = "NHWC" => InputCanStartNhwc(graph)
                      /\ graph.input \in computed
                      /\ \A j \in DOMAIN ops : j < at =>
                           {OutOf(n) : n \in Nodeset(ops[j])} \subseteq computed
    BY DEF IInv, RunInv
  <2>6. (pc = "run" => /\ at \in Nat \ {0} /\ entry \in Both
                       /\ entry = "NHWC" => InputCanStartNhwc(graph)
                       /\ graph.input \in computed
                       /\ \A j \in DOMAIN ops : j < at =>
                            {OutOf(n) : n \in Nodeset(ops[j])} \subseteq computed)'
    BY <2>1, <2>5 DEF OutOf
  <2> QED
    BY <1>1, <2>1, <2>4, <2>6 DEF IInv, RunInv
<1>6. CASE Create \/ RunFails \/ Finish
  <2>1. pc' # "run"
    BY <1>6 DEF Create, Compile, CompileConv, CompileOther, CompileGeneric, Emit, EndCompile,
                PlaceNext, EndPlace, CreateFails, RunFails, Finish
  <2> QED
    BY <1>4, <2>1
<1> QED
  BY <1>2, <1>3, <1>5, <1>6 DEF Next, Run

(* For every graph whose normalised convolutions have whole blocks: as     *)
(* long as an operation still reads a tensor, each layout that             *)
(* available_layouts lists for it is its current value (fast_publish_nchw, *)
(* fast_publish_nhwc, fast_ensure_nhwc).                                   *)
THEOREM CurrentCopies == Spec /\ WholeBlocks => []AvailableIsCurrent
<1>1. Init /\ WholeBlocks => IInv
  BY PlanInit DEF Init, IInv, RunInv
<1>2. IInv /\ [Next]_vars => IInv'
  BY Inductive
<1>3. IInv => AvailableIsCurrent
  BY DEF IInv, RunInv, Held, Current, Needed, AvailableIsCurrent
<1> QED
  BY <1>1, <1>2, <1>3, PTL DEF Spec

-----------------------------------------------------------------------------
(* The refinement.                                                         *)

(* An output is the result of an operation, and known to the run's end.    *)
LEMMA OutputFacts ==
  ASSUME Compiled, NEW t \in graph.outputs
  PROVE  /\ t \in All /\ InSession(t)
         /\ \E j \in DOMAIN ops : t = ops[j].out
<1>1. PICK n \in Nodes(graph) : OutOf(n) = t
  BY OperationFacts, GraphFacts DEF OutOf
<1>2. PICK j \in DOMAIN ops : n \in Nodeset(ops[j])
  BY OperationFacts
<1>3. n = EndOf(ops[j])
  <2>1. SpanRight(ops[j])
    BY OperationFacts DEF OperationRight
  <2> QED
    BY <1>1, <1>2, <2>1 DEF SpanRight
<1>4. t = ops[j].out /\ EndOf(ops[j]) \in Nat \ {0}
  BY <1>1, <1>3, OperationFacts, SpanFacts
<1>5. t \in All /\ Birth(t) = EndOf(ops[j])
  BY <1>4, BirthOf
<1> QED
  BY <1>4, <1>5 DEF InSession

(* The caller copies the output from a copy that is current.               *)
LEMMA FinishIs ==
  ASSUME IInv, Finish
  PROVE  computed' = computed
<1> DEFINE out == CHOOSE t \in graph.outputs : TRUE
           start == [available |-> available, copies |-> copies, ok |-> TRUE]
           l == IF entry = "NHWC" /\ Copy(out, "NCHW") \notin copies THEN "NHWC" ELSE "NCHW"
           s == IF entry = "NCHW" /\ Rank4(graph, out) THEN Ensure(start, out, "NCHW") ELSE start
<1>1. /\ pc = "run" /\ at > Len(ops)
      /\ computed' = IF s.ok /\ Copy(out, l) \in s.copies THEN computed ELSE computed \ {out}
  BY DEF Finish
<1>2. Ready /\ entry \in Both /\ Held(start, at)
  BY <1>1, RunIsReady DEF IInv, RunInv
<1>3. /\ Compiled /\ start \in States /\ Honest(start.available, at)
      /\ Current(start.available, start.copies, at)
  BY <1>2 DEF Ready, Held
<1>4. start.copies = copies /\ start.ok = TRUE /\ start.available = available
  OBVIOUS
<1>5. out \in graph.outputs
  BY <1>3, OperationFacts, GraphFacts
<1> HIDE DEF out
<1>6. out \in All /\ InSession(out) /\ Needed(out, at)
  BY <1>3, <1>5, OutputFacts DEF Needed
<1>7. start.available[out] # {} /\ start.available[out] \subseteq Both
  <2>1. PICK j \in DOMAIN ops : out = ops[j].out
    BY <1>3, <1>5, OutputFacts
  <2>2. at \in Nat /\ j < at
    <3>1. at \in Nat \ {0}
      BY <1>1 DEF IInv, RunInv
    <3>2. j \in Nat /\ j <= Len(ops) /\ Len(ops) \in Nat
      BY <1>3, OperationFacts, SpanFacts
    <3> QED
      BY <1>1, <3>1, <3>2
  <2> HIDE DEF start
  <2>3. LayoutOf(ops[j]) \in start.available[out]
    BY <1>3, <2>1, <2>2 DEF Honest
  <2>4. start.available \in [All -> SUBSET Both]
    BY <1>3 DEF States
  <2> QED
    BY <1>6, <2>3, <2>4
<1>8. \A k \in start.available[out] : Copy(out, k) \in copies
  BY <1>3, <1>4, <1>6, Zenon DEF Current
<1>9. CASE entry = "NHWC"
  <2>1. s = start
    BY <1>9
  <2>2. "NCHW" \in start.available[out] \/ "NHWC" \in start.available[out]
    BY <1>7 DEF Both
  <2>3. Copy(out, l) \in copies
    BY <1>8, <1>9, <2>2
  <2> HIDE DEF s, l, start
  <2> QED
    BY <1>1, <1>4, <2>1, <2>3
<1>10. CASE entry = "NCHW" /\ (~Rank4(graph, out) \/ "NCHW" \in start.available[out])
  <2>1. s = start
    BY <1>4, <1>10, Zenon DEF Ensure, Readable
  <2>2. "NCHW" \in start.available[out]
    BY <1>3, <1>6, <1>7, <1>10, Zenon DEF Honest
  <2>3. Copy(out, l) \in copies
    BY <1>8, <1>10, <2>2
  <2> HIDE DEF s, l, start
  <2> QED
    BY <1>1, <1>4, <2>1, <2>3
<1>11. CASE entry = "NCHW" /\ Rank4(graph, out) /\ "NCHW" \notin start.available[out]
  <2>1. "NHWC" \in start.available[out]
    BY <1>7, <1>11 DEF Both
  <2>2. out \notin graph.neutral
    BY <1>3, <1>6, <1>7, <1>11, Zenon DEF Honest, Both
  <2>3. place[out] >= 0
    BY <1>3, <1>6, <2>1, <2>2, Zenon DEF Honest
  <2>4. Convertible(start, out, "NCHW")
    BY <1>6, <1>11, <2>2, <2>3 DEF Convertible, HasNhwcPlace
  <2>5. s = Converted(start, out, "NCHW")
    BY <1>4, <1>11, <2>4, Zenon DEF Ensure, Readable
  <2>6. Copy(out, From("NCHW")) \in copies
    BY <1>8, <2>1 DEF From
  <2> DEFINE av == [available EXCEPT ![out] = Both]
             cp == Left(copies, out, "NCHW") \cup {Copy(out, "NCHW")}
  <2>7. s = [[start EXCEPT !.available = av] EXCEPT !.copies = cp]
    BY <2>5, <2>6 DEF Converted
  <2> HIDE DEF av, cp
  <2>8. s.ok = TRUE /\ s.copies = cp
    <3> HIDE DEF s
    <3> QED
      BY <2>7
  <2>9. Copy(out, l) \in cp
    BY <1>11 DEF cp
  <2> HIDE DEF s, l, start
  <2> QED
    BY <1>1, <2>8, <2>9
<1> QED
  BY <1>2, <1>9, <1>10, <1>11 DEF Both

(* An operation's nodes have all their operands.                           *)
LEMMA OperandsComputed ==
  ASSUME IInv, RunOp, NEW n \in Nodeset(ops[at])
  PROVE  n \in Nodes(graph) /\ Ins(graph, n) \subseteq computed' \cup graph.const
<1>1. /\ Compiled /\ at \in DOMAIN ops
      /\ computed' = computed \cup {OutOf(m) : m \in Nodeset(ops[at])}
  BY PerformIs DEF Ready
<1>2. /\ graph.input \in computed
      /\ \A j \in DOMAIN ops : j < at => {OutOf(m) : m \in Nodeset(ops[j])} \subseteq computed
  BY PerformIs DEF IInv, RunInv
<1>3. ASSUME NEW u \in Ins(graph, n), u \notin graph.const, u \notin {OutOf(m) : m \in Nodeset(ops[at])}
      PROVE  u \in computed
  <2>1. u \in Consumed(ops[at])
    BY <1>3 DEF Consumed
  <2>2. Reached(u, at)
    BY <1>1, <2>1, ConsumedFacts
  <2>3. ASSUME NEW j \in DOMAIN ops, j < at, u = ops[j].out
        PROVE  u \in computed
    <3>1. EndOf(ops[j]) \in Nodeset(ops[j])
      <4>1. /\ ops[j].begin \in Nat /\ EndOf(ops[j]) \in Nat /\ ops[j].begin <= EndOf(ops[j])
            /\ \A m \in Nat : m \in Nodeset(ops[j]) <=> ops[j].begin <= m /\ m <= EndOf(ops[j])
        BY <1>1, SpanFacts
      <4> QED
        BY <4>1
    <3>2. u = OutOf(EndOf(ops[j]))
      BY <1>1, <2>3, OperationFacts
    <3> QED
      BY <1>2, <2>3, <3>1, <3>2
  <2> QED
    BY <1>2, <2>2, <2>3 DEF Reached
<1> QED
  BY <1>1, <1>3, SpanFacts

(* A run of any plan of a graph whose normalised convolutions have whole   *)
(* blocks evaluates the graph: an operation computes its nodes from        *)
(* current values of all they read, and a run that ends well has the       *)
(* outputs (fast_execute_backbone).                                        *)
THEOREM PlanEvaluates == Spec /\ WholeBlocks => EvalSpec
<1> DEFINE O == IF pc = "run" THEN "running" ELSE IF computed = {} THEN "none" ELSE "ok"
<1>1. Init => Eval!Init
  BY DEF Init, Eval!Init
<1>2. ASSUME IInv, [Next]_vars
      PROVE  [Eval!Next]_Eval!evaluation
  <2>1. CASE Begin
    <3>1. /\ pc # "run" /\ pc' = "run" /\ computed' = {graph.input} /\ UNCHANGED graph
      BY <2>1 DEF Begin
    <3>2. O # "running" /\ O' = "running"
      BY <3>1
    <3>3. Eval!Begin
      BY <3>1, <3>2 DEF Eval!Begin
    <3> QED
      BY <3>3 DEF Eval!Next
  <2>2. CASE RunOp
    <3>1. /\ pc = "run" /\ pc' = "run" /\ UNCHANGED graph
          /\ computed' = computed \cup {OutOf(m) : m \in Nodeset(ops[at])}
      BY <1>2, <2>2, PerformIs
    <3>2. \A n \in Nodeset(ops[at]) :
            n \in Nodes(graph) /\ Ins(graph, n) \subseteq computed' \cup graph.const
      BY <1>2, <2>2, OperandsComputed
    <3>3. \A t \in computed' \ computed :
            \E n \in Nodes(graph) : Out(graph, n) = t /\ Ins(graph, n) \subseteq computed' \cup graph.const
      BY <3>1, <3>2 DEF OutOf
    <3>4. \A t \in computed' \ computed :
            \E n \in Eval!Nodes(graph) : /\ Eval!Out(graph, n) = t
                                         /\ Eval!Ins(graph, n) \subseteq computed' \cup graph.const
      BY <3>3 DEF Eval!Nodes, Eval!Out, Eval!Ins, Eval!Slots, Nodes, Out, Ins, Slots
    <3>5. O = "running" /\ O' = "running" /\ computed \subseteq computed'
      BY <3>1
    <3>6. Eval!Evaluate
      BY <3>1, <3>4, <3>5 DEF Eval!Evaluate
    <3> QED
      BY <3>6 DEF Eval!Next
  <2>3. CASE RunFails
    <3>1. pc = "run" /\ pc' # "run" /\ computed' = {} /\ UNCHANGED graph
      BY <2>3 DEF RunFails
    <3>2. Eval!GiveUp
      BY <3>1 DEF Eval!GiveUp
    <3> QED
      BY <3>2 DEF Eval!Next
  <2>4. CASE Finish
    <3>1. /\ pc = "run" /\ pc' # "run" /\ UNCHANGED graph /\ computed' = computed
          /\ at > Len(ops)
      BY <1>2, <2>4, FinishIs DEF Finish
    <3>2. /\ graph.input \in computed /\ at \in Nat
          /\ \A j \in DOMAIN ops : j < at => {OutOf(n) : n \in Nodeset(ops[j])} \subseteq computed
      BY <1>2, <3>1 DEF IInv, RunInv
    <3>3. Compiled
      BY <1>2, <3>1, RunIsReady DEF Ready
    <3>4. ASSUME NEW t \in graph.outputs
          PROVE  t \in computed
      <4>1. PICK j \in DOMAIN ops : t = ops[j].out
        BY <3>3, OutputFacts
      <4>2. j < at
        BY <3>1, <3>2, <3>3, OperationFacts
      <4>3. EndOf(ops[j]) \in Nodeset(ops[j]) /\ t = OutOf(EndOf(ops[j]))
        <5>1. /\ ops[j].begin \in Nat /\ EndOf(ops[j]) \in Nat /\ ops[j].begin <= EndOf(ops[j])
              /\ \A m \in Nat : m \in Nodeset(ops[j]) <=> ops[j].begin <= m /\ m <= EndOf(ops[j])
          BY <3>3, SpanFacts
        <5>2. t = OutOf(EndOf(ops[j]))
          BY <3>3, <4>1, OperationFacts
        <5> QED
          BY <5>1, <5>2
      <4> QED
        BY <3>2, <4>2, <4>3
    <3>5. O = "running" /\ O' = "ok"
      BY <3>1, <3>2
    <3>6. Eval!Return
      BY <3>1, <3>4, <3>5 DEF Eval!Return
    <3> QED
      BY <3>6 DEF Eval!Next
  <2>5. CASE Create
    <3>1. pc # "run" /\ pc' # "run" /\ UNCHANGED <<graph, computed>>
      BY <2>5 DEF Create, Compile, CompileConv, CompileOther, CompileGeneric, Emit, EndCompile,
                  PlaceNext, EndPlace, CreateFails, running
    <3> QED
      BY <3>1 DEF Eval!evaluation
  <2>6. CASE UNCHANGED vars
    BY <2>6 DEF vars, running, Eval!evaluation
  <2> QED
    BY <1>2, <2>1, <2>2, <2>3, <2>4, <2>5, <2>6 DEF Next, Run
<1>3. Init /\ WholeBlocks => IInv
  BY PlanInit DEF Init, IInv, RunInv
<1>4. IInv /\ [Next]_vars => IInv'
  BY Inductive
<1> QED
  BY <1>1, <1>2, <1>3, <1>4, PTL DEF Spec, EvalSpec, Eval!Spec
=============================================================================
