-------------------------- MODULE DetProgramProofs --------------------------
(***************************************************************************)
(* The compiled detection program, for any graphs that are well formed,    *)
(* lifetimes and alignment: two values that live at the same time share    *)
(* nothing of the arena, and every value lies inside it, those that have a *)
(* second slot for their other layout included; and every operation finds  *)
(* its maps in the layout its kernel reads.                                *)
(***************************************************************************)
EXTENDS DetProgram, FiniteSetTheorems, SequenceTheorems, FunctionTheorems,
        WellFoundedInduction, TLAPS

-----------------------------------------------------------------------------
(* Numbers.                                                                *)

(* A nonempty set of naturals with a bound has a greatest element.         *)
LEMMA GreatestOf ==
  ASSUME NEW b \in Nat, NEW T, T \subseteq 0 .. b, T # {}
  PROVE  \E x \in T : \A y \in T : y <= x
<1> DEFINE Above(x) == {y \in T : x <= y}
           F == {Above(x) : x \in T}
<1>1. IsFiniteSet(0 .. b) /\ \A x \in T : x \in Nat
  BY FS_Interval
<1>2. F \subseteq SUBSET (0 .. b) /\ F # {}
  OBVIOUS
<1>3. IsWellFoundedOn(StrictSubsetOrdering(0 .. b), SUBSET (0 .. b))
  BY <1>1, FS_StrictSubsetOrderingWellFounded, FS_FiniteSubsetsOfFinite
<1>4. PICK U \in F : \A V \in F : <<V, U>> \notin StrictSubsetOrdering(0 .. b)
  <2> HIDE DEF F
  <2>1. QED
    BY <1>2, <1>3, WFMin
<1>5. PICK x \in T : U = Above(x)
  OBVIOUS
<1>6. ASSUME NEW y \in T, x < y PROVE FALSE
  <2>0. x <= x /\ ~(y <= x) /\ \A z \in T : y <= z => x <= z
    BY <1>1, <1>6
  <2>1. Above(y) \subseteq Above(x) /\ x \in Above(x) /\ x \notin Above(y)
    BY <2>0, Zenon
  <2>2. Above(y) \in F /\ Above(x) \in SUBSET (0 .. b) /\ Above(y) \in SUBSET (0 .. b)
    OBVIOUS
  <2> HIDE DEF Above, F
  <2>3. QED
    BY <1>4, <1>5, <2>1, <2>2 DEF StrictSubsetOrdering
<1>7. QED
  BY <1>1, <1>6

(* The same for numbers from -1 on.                                        *)
LEMMA GreatestUse ==
  ASSUME NEW b \in Nat, NEW T, T \subseteq -1 .. b, T # {}
  PROVE  \E x \in T : \A y \in T : y <= x
<1> DEFINE U == {n \in 0 .. b + 1 : n - 1 \in T}
<1>1. U \subseteq 0 .. b + 1 /\ b + 1 \in Nat
  OBVIOUS
<1>2. \A x \in T : x + 1 \in U
  <2> TAKE x \in T
  <2>1. x \in Int /\ x + 1 \in 0 .. b + 1 /\ (x + 1) - 1 = x
    OBVIOUS
  <2> QED
    BY <2>1
<1>3. U # {}
  BY <1>2
<1>4. PICK n \in U : \A y \in U : y <= n
  <2> HIDE DEF U
  <2> QED
    BY <1>1, <1>3, GreatestOf
<1>5. n - 1 \in T /\ \A y \in T : y <= n - 1
  <2>1. \A y \in T : y \in Int /\ y + 1 <= n
    BY <1>2, <1>4
  <2>2. n \in Int
    OBVIOUS
  <2> HIDE DEF U
  <2>3. \A y \in T : y <= n - 1
    BY <2>1, <2>2
  <2> QED
    BY <1>4, <2>3 DEF U
<1> QED
  BY <1>5

(* A nonempty set of naturals has a least element.                         *)
LEMMA LeastOf ==
  ASSUME NEW T, T \subseteq Nat, T # {}
  PROVE  \E x \in T : \A y \in T : x <= y
<1>1. PICK b \in T : TRUE
  OBVIOUS
<1> DEFINE U == {n \in 0 .. b : b - n \in T}
<1>2. b \in Nat /\ U \subseteq 0 .. b /\ b - 0 = b /\ 0 \in 0 .. b
  OBVIOUS
<1>3. U # {}
  BY <1>1, <1>2
<1>4. PICK n \in U : \A y \in U : y <= n
  <2> HIDE DEF U
  <2> QED
    BY <1>2, <1>3, GreatestOf
<1>5. b - n \in T /\ n \in 0 .. b
  OBVIOUS
<1>6. ASSUME NEW y \in T, ~(b - n <= y) PROVE FALSE
  <2>1. y \in Nat /\ y < b - n
    BY <1>2, <1>5, <1>6
  <2>2. b - y \in 0 .. b /\ b - (b - y) = y /\ ~(b - y <= n)
    BY <1>2, <1>5, <2>1
  <2> QED
    BY <1>4, <2>2
<1> QED
  BY <1>5, <1>6

(* Induction up to a bound, for what can be said with a set.               *)
LEMMA Induction ==
  ASSUME NEW N \in Nat, NEW S, 0 \in S, \A n \in 0 .. N - 1 : n \in S => n + 1 \in S
  PROVE  0 .. N \subseteq S
<1> SUFFICES ASSUME NEW k \in 0 .. N, k \notin S PROVE FALSE
  OBVIOUS
<1> DEFINE T == {m \in 0 .. k : m \in S}
<1>1. T \subseteq 0 .. k /\ T # {} /\ k \in Nat
  OBVIOUS
<1>2. PICK m \in T : \A y \in T : y <= m
  <2> HIDE DEF T
  <2>1. QED
    BY <1>1, GreatestOf
<1>3. m \in 0 .. N - 1 /\ m \in S /\ m + 1 \in 0 .. k /\ ~(m + 1 <= m)
  <2>1. m \in 0 .. k /\ m \in S /\ m # k
    OBVIOUS
  <2>2. QED
    BY <2>1
<1>4. QED
  BY <1>2, <1>3

-----------------------------------------------------------------------------
(* One plan.                                                               *)

Elements(s) == {s[i] : i \in DOMAIN s}

(* The inductive invariant.  The sizes of the candidates are natural       *)
(* numbers and the search stands at an aligned offset, so that the offset  *)
(* that was found free is the one the value gets.                          *)
PlanTyped ==
  /\ placed \in Seq(Elements(placed))
  /\ arena_bytes \in Nat
  /\ \A c \in candidates : c.bytes \in Nat
  /\ \A p \in DOMAIN placed : placed[p].offset \in Nat /\ placed[p].bytes \in Nat
SearchAligned == offset_tried \in Nat /\ Align(offset_tried) = offset_tried
PlanInv == PlanTyped /\ SearchAligned /\ PlacesFit /\ PlacesDisjoint

(* lw_x64_rec_arena_align returns an aligned offset that is not smaller.   *)
LEMMA AlignUp ==
  ASSUME NEW x \in Nat
  PROVE  /\ Align(x) \in Nat /\ x <= Align(x)
         /\ Align(Align(x)) = Align(x)
<1> DEFINE k == (x + Unit - 1) \div Unit
<1>1. Unit \in Nat /\ Unit >= 1
  BY UnitAssumption
<1>2. x + Unit - 1 \in Nat
  BY <1>1
<1>3. k \in Nat /\ k * Unit <= x + Unit - 1 /\ x + Unit - 1 < k * Unit + Unit
  BY <1>1, <1>2
<1>4. k * Unit \in Nat
  BY <1>1, <1>3
<1>5. (k * Unit + Unit - 1) \div Unit = k
  BY <1>1, <1>3, <1>4
<1>6. Align(x) = k * Unit
  BY DEF Align
<1>7. Align(k * Unit) = k * Unit
  BY <1>5 DEF Align
<1> HIDE DEF k
<1>8. x <= k * Unit
  BY <1>1, <1>3, <1>4
<1>9. QED
  BY <1>4, <1>6, <1>7, <1>8

(* What Append does to any sequence, with a fact for every position.       *)
LEMMA AppendAny ==
  ASSUME NEW s, s \in Seq(Elements(s)), NEW e
  PROVE  LET t == Append(s, e)
         IN  /\ t \in Seq(Elements(t))
             /\ DOMAIN t = DOMAIN s \cup {Len(s) + 1} /\ Len(s) + 1 \notin DOMAIN s
             /\ \A i \in DOMAIN s : t[i] = s[i]
             /\ t[Len(s) + 1] = e
<1> DEFINE T == Elements(s) \cup {e}
           t == Append(s, e)
<1>1. s \in Seq(T)
  BY SeqMonotonic
<1>2. DOMAIN s = 1 .. Len(s) /\ Len(s) \in Nat
  BY <1>1, LenProperties
<1>3. /\ t \in Seq(T) /\ Len(t) = Len(s) + 1
      /\ \A i \in 1 .. Len(s) : t[i] = s[i]
      /\ t[Len(s) + 1] = e
  BY <1>1, AppendProperties
<1>4. DOMAIN t = 1 .. Len(t) /\ t \in [1 .. Len(t) -> T] /\ Len(t) \in Nat
  BY <1>3, LenProperties
<1> HIDE DEF t
<1>5. t \in [1 .. Len(t) -> Elements(t)]
  BY <1>4 DEF Elements
<1>6. t \in Seq(Elements(t))
  BY <1>4, <1>5
<1>7. DOMAIN t = DOMAIN s \cup {Len(s) + 1} /\ Len(s) + 1 \notin DOMAIN s
  BY <1>2, <1>3, <1>4
<1>8. QED
  BY <1>2, <1>3, <1>6, <1>7 DEF t

(* Another offset is tried: what is placed stays.                          *)
LEMMA BumpStep ==
  ASSUME PlanInv, Bump
  PROVE  PlanInv'
<1>1. PICK c \in candidates, p \in DOMAIN placed : BumpBehind(c, p)
  BY DEF Bump
<1>2. End(placed[p]) \in Nat
  BY DEF PlanInv, PlanTyped, End
<1>3. SearchAligned'
  BY <1>1, <1>2, AlignUp DEF BumpBehind, SearchAligned, Align
<1>4. UNCHANGED <<candidates, placed, arena_bytes>>
  BY <1>1 DEF BumpBehind
<1>5. QED
  BY <1>3, <1>4 DEF PlanInv, PlanTyped, PlacesFit, PlacesDisjoint, SameTime, Overlap, End

(* A value gets the offset that was found free.                            *)
LEMMA PlaceStep ==
  ASSUME PlanInv, Place
  PROVE  PlanInv'
<1>1. PICK c \in candidates : PlaceNext(c)
  BY DEF Place
<1> DEFINE s == Slot(c, offset_tried)
           n == Len(placed) + 1
<1>2. /\ Hits(c, offset_tried) = {} /\ candidates' = candidates \ {c}
      /\ placed' = Append(placed, s) /\ offset_tried' = 0
      /\ arena_bytes' = IF End(s) > arena_bytes THEN End(s) ELSE arena_bytes
  BY <1>1 DEF PlaceNext, PlanInv, SearchAligned
<1>3. /\ s.offset = offset_tried /\ s.bytes = c.bytes
      /\ s.first = c.first /\ s.last = c.last
      /\ s.offset \in Nat /\ s.bytes \in Nat
  BY DEF Slot, PlanInv, PlanTyped, SearchAligned
<1> HIDE DEF s
<1>4. /\ placed' \in Seq(Elements(placed'))
      /\ DOMAIN placed' = DOMAIN placed \cup {n} /\ n \notin DOMAIN placed
      /\ \A i \in DOMAIN placed : placed'[i] = placed[i]
      /\ placed'[n] = s
  BY <1>2, AppendAny DEF PlanInv, PlanTyped
<1> HIDE DEF n
<1>5. End(s) \in Nat /\ arena_bytes' \in Nat
      /\ arena_bytes <= arena_bytes' /\ End(s) <= arena_bytes'
  BY <1>2, <1>3 DEF End, PlanInv, PlanTyped
<1>6. PlanTyped'
  BY <1>2, <1>3, <1>4, <1>5 DEF PlanInv, PlanTyped, Elements
<1>7. SearchAligned'
  <2>1. Align(0) = 0
    BY UnitAssumption DEF Align
  <2>2. QED
    BY <1>2, <2>1 DEF SearchAligned, Align
<1>8. PlacesFit'
  <2>1. ASSUME NEW p \in DOMAIN placed PROVE End(placed[p]) <= arena_bytes'
    BY <1>5, <2>1 DEF PlanInv, PlanTyped, PlacesFit, End
  <2>2. QED
    BY <1>3, <1>4, <1>5, <2>1 DEF PlanInv, PlanTyped, PlacesFit, End
<1>9. ASSUME NEW p \in DOMAIN placed, SameTime(placed[p], s)
      PROVE  ~Overlap(s.offset, s.bytes, placed[p].offset, placed[p].bytes)
  BY <1>2, <1>3, <1>9 DEF Hits, SameTime
<1>10. PlacesDisjoint'
  BY <1>4, <1>9 DEF PlanInv, PlacesDisjoint, SameTime, Overlap
<1>11. QED
  BY <1>6, <1>7, <1>8, <1>10 DEF PlanInv

(* A plan starts with nothing placed.                                      *)
LEMMA StartOfPlan ==
  ASSUME NEW S, \A c \in S : c.bytes \in Nat, PlanStart(S)
  PROVE  PlanInv'
<1>1. Align(0) = 0
  BY UnitAssumption DEF Align
<1>2. placed' \in Seq(Elements(placed')) /\ DOMAIN placed' = {}
  <2>1. \A T : << >> \in Seq(T)
    BY EmptySeq
  <2>2. QED
    BY <2>1 DEF PlanStart
<1>3. QED
  BY <1>1, <1>2 DEF PlanStart, PlanInv, PlanTyped, SearchAligned, PlacesFit,
     PlacesDisjoint, Align

LEMMA PlanInitially ==
  ASSUME PlanInit
  PROVE  PlanInv
<1>1. Align(0) = 0
  BY UnitAssumption DEF Align
<1>2. placed \in Seq(Elements(placed)) /\ DOMAIN placed = {}
  <2>1. \A T : << >> \in Seq(T)
    BY EmptySeq
  <2>2. QED
    BY <2>1 DEF PlanInit
<1>3. QED
  BY <1>1, <1>2 DEF PlanInit, PlanInv, PlanTyped, SearchAligned, PlacesFit, PlacesDisjoint

(* Steps that leave the plan alone.                                        *)
LEMMA PlanUntouched ==
  ASSUME PlanInv, UNCHANGED plan
  PROVE  PlanInv'
BY DEF plan, PlanInv, PlanTyped, SearchAligned, PlacesFit, PlacesDisjoint,
   Elements, Align, End, SameTime, Overlap

-----------------------------------------------------------------------------
(* The arena of the program.                                               *)

ArenaInv == graph \in Graphs /\ PlanInv

LEMMA ArenaStep ==
  ASSUME ArenaInv, [Next]_vars
  PROVE  ArenaInv'
<1> USE DEF ArenaInv
<1>1. ASSUME EndFirstPass PROVE ArenaInv'
  <2>1. PlanStart(Candidates) /\ graph' = graph
    BY <1>1 DEF EndFirstPass, model
  <2>2. \A c \in Candidates : c.bytes \in Nat
    <3>1. \A t \in Values : Bytes(t) \in Nat
      BY GraphsWellFormed DEF ArenaInv, WellFormed, Values, Bytes, Tensors
    <3>2. \A t \in Stored : Primary(t).bytes \in Nat /\ Alternate(t).bytes \in Nat
      BY <3>1 DEF Primary, Alternate, Stored
    <3>3. QED
      BY <3>2, Zenon DEF Candidates
  <2>3. QED
    BY <2>1, <2>2, StartOfPlan
<1>2. ASSUME PlanStep PROVE ArenaInv'
  BY <1>2, BumpStep, PlaceStep DEF PlanStep, model
<1>3. ASSUME PlanLayouts PROVE UNCHANGED <<graph, plan>>
  BY <1>3 DEF PlanLayouts, model, plan
<1>4. ASSUME Lower PROVE UNCHANGED <<graph, plan>>
  <2>1. ASSUME LowerConv PROVE UNCHANGED <<graph, plan>>
    BY <2>1 DEF LowerConv, model, plan
  <2>2. ASSUME LowerConvert \/ LowerOutput PROVE UNCHANGED <<graph, plan>>
    BY <2>2 DEF LowerConvert, LowerOutput, model, plan
  <2>3. ASSUME LowerGelu \/ LowerAlias \/ LowerNode \/ LowerFails
        PROVE  UNCHANGED <<graph, plan>>
    BY <2>3 DEF LowerGelu, LowerAlias, LowerNode, LowerFails, model, plan
  <2>4. QED
    BY <1>4, <2>1, <2>2, <2>3 DEF Lower
<1>5. ASSUME BeginSecondPass \/ EndSecondPass PROVE UNCHANGED <<graph, plan>>
  BY <1>5 DEF BeginSecondPass, EndSecondPass, model, plan
<1>6. ASSUME Run PROVE UNCHANGED <<graph, plan>>
  BY <1>6 DEF Run, Begin, RunOp, RunConvNchw, RunConvNhwc, RunConvert, RunTransposed,
     RunPlanes, RunConcat, RunAffine, RunBinary, RunUnary, RunReduce, RunPool,
     Perform, RunFails, Finish, model, plan
<1>7. ASSUME UNCHANGED vars PROVE UNCHANGED <<graph, plan>>
  BY <1>7 DEF vars, model, plan
<1>8. ASSUME UNCHANGED <<graph, plan>> PROVE ArenaInv'
  BY <1>8, PlanUntouched
<1>9. QED
  BY <1>1, <1>2, <1>3, <1>4, <1>5, <1>6, <1>7, <1>8 DEF Next, Compile

(* The slots of the values (plan_arena_offsets of the DET compiler), both  *)
(* the primary and the alternate ones, do not overlap while they live, and *)
(* none reaches past the arena.                                            *)
THEOREM DetArenaIsSafe ==
  Spec => [](PlacesDisjoint /\ PlacesFit)
<1>1. Init => ArenaInv
  BY PlanInitially DEF Init, ArenaInv
<1>2. ArenaInv /\ [Next]_vars => ArenaInv'
  BY ArenaStep
<1>3. ArenaInv => PlacesDisjoint /\ PlacesFit
  BY DEF ArenaInv, PlanInv
<1>4. QED
  BY <1>1, <1>2, <1>3, PTL DEF Spec

-----------------------------------------------------------------------------
(* The layouts of the nodes.                                               *)

(* What DetProgram assumes of its graphs, all of it.                       *)
LEMMA GraphsSound ==
  \A g \in Graphs :
    /\ WellFormed(g) /\ WellTyped(g) /\ g.input \notin g.const
    /\ \A n \in Nodes(g) : g.nodes[n].op \in Binary => Len(g.nodes[n].ins) = 2
    /\ RenamesNchw(g)
BY GraphsWellFormed, OperandsAssumption, RenamesAssumption

LEMMA GraphFacts ==
  ASSUME graph \in Graphs
  PROVE  /\ LastNode \in Nat /\ Nodes(graph) = 1 .. LastNode
         /\ Values \subseteq Nat \ {0} /\ graph.input \in Values
         /\ graph.input \notin graph.const
         /\ \A t \in Values : Bytes(t) \in Nat \ {0}
         /\ \A n \in 1 .. LastNode :
              /\ OutOf(n) \in Values \ (graph.const \cup {graph.input})
              /\ \A m \in 1 .. LastNode : OutOf(m) = OutOf(n) => m = n
              /\ In(n, 1) \in Ins(graph, n)
              /\ Op(n) \in Binary => In(n, 2) \in Ins(graph, n)
              /\ \A t \in Ins(graph, n) :
                   /\ t \in Values
                   /\ t \in graph.const \cup {graph.input} \/ \E m \in 1 .. n - 1 : OutOf(m) = t
<1>1. /\ WellFormed(graph) /\ WellTyped(graph) /\ graph.input \notin graph.const
      /\ \A n \in Nodes(graph) : graph.nodes[n].op \in Binary => Len(graph.nodes[n].ins) = 2
  BY GraphsSound
<1>2. Len(graph.nodes) \in Nat /\ Nodes(graph) = 1 .. Len(graph.nodes)
  <2>1. graph.nodes \in Seq({graph.nodes[n] : n \in Nodes(graph)})
    BY <1>1 DEF WellTyped
  <2> QED
    BY <2>1, LenProperties DEF Nodes
<1>3. /\ LastNode = Len(graph.nodes) /\ Nodes(graph) = Nodes(graph) /\ Values = Tensors(graph)
      /\ \A t : Bytes(t) = graph.bytes[t]
      /\ \A n : /\ OutOf(n) = Out(graph, n) /\ Ins(graph, n) = Ins(graph, n)
                /\ Op(n) = graph.nodes[n].op
                /\ \A s : In(n, s) = graph.nodes[n].ins[s]
  BY DEF LastNode, Nodes, Values, Tensors, Bytes, OutOf, Out, Ins, Slots, Op, In
<1>4. Tensors(graph) \subseteq Nat \ {0} /\ graph.input \in Tensors(graph)
      /\ \A t \in Tensors(graph) : graph.bytes[t] \in Nat \ {0}
  BY <1>1 DEF WellTyped, WellFormed
<1>5. ASSUME NEW n \in Nodes(graph)
      PROVE  /\ Out(graph, n) \in Tensors(graph) \ (graph.const \cup {graph.input})
             /\ \A m \in Nodes(graph) : Out(graph, m) = Out(graph, n) => m = n
             /\ \A t \in Ins(graph, n) :
                  t \in graph.const \cup {graph.input} \/ \E m \in 1 .. n - 1 : Out(graph, m) = t
  BY <1>1 DEF WellFormed, WellTyped
<1>6. ASSUME NEW n \in Nodes(graph)
      PROVE  /\ \A t \in Ins(graph, n) : t \in Tensors(graph)
             /\ graph.nodes[n].ins[1] \in Ins(graph, n)
             /\ graph.nodes[n].op \in Binary => graph.nodes[n].ins[2] \in Ins(graph, n)
  <2>1. graph.nodes[n].ins \in Seq(Tensors(graph)) /\ graph.nodes[n].ins # <<>>
    BY <1>1 DEF WellTyped
  <2>2. Len(graph.nodes[n].ins) \in Nat /\ Len(graph.nodes[n].ins) # 0
        /\ Slots(graph, n) = 1 .. Len(graph.nodes[n].ins)
        /\ \A s \in Slots(graph, n) : graph.nodes[n].ins[s] \in Tensors(graph)
    BY <2>1, LenProperties, EmptySeq, ElementOfSeq DEF Slots
  <2>3. graph.nodes[n].op \in Binary => Len(graph.nodes[n].ins) = 2
    BY <1>1
  <2>4. 1 \in Slots(graph, n) /\ (graph.nodes[n].op \in Binary => 2 \in Slots(graph, n))
    <3>1. 1 \in Slots(graph, n)
      BY <2>2
    <3>2. ASSUME graph.nodes[n].op \in Binary PROVE 2 \in Slots(graph, n)
      <4>1. Slots(graph, n) = 1 .. 2
        BY <2>2, <2>3, <3>2
      <4> QED
        BY <4>1
    <3> QED
      BY <3>1, <3>2
  <2> QED
    BY <2>2, <2>4 DEF Ins
<1>7. ASSUME NEW n \in 1 .. LastNode
      PROVE  /\ OutOf(n) \in Values \ (graph.const \cup {graph.input})
             /\ \A m \in 1 .. LastNode : OutOf(m) = OutOf(n) => m = n
             /\ In(n, 1) \in Ins(graph, n)
             /\ Op(n) \in Binary => In(n, 2) \in Ins(graph, n)
             /\ \A t \in Ins(graph, n) :
                  /\ t \in Values
                  /\ t \in graph.const \cup {graph.input} \/ \E m \in 1 .. n - 1 : OutOf(m) = t
  <2>1. n \in Nodes(graph) /\ 1 .. LastNode = Nodes(graph)
    BY <1>2, <1>3
  <2> QED
    BY <1>3, <1>5, <1>6, <2>1
<1> QED
  BY <1>1, <1>2, <1>3, <1>4, <1>7

LEMMA ProducerIs ==
  ASSUME graph \in Graphs
  PROVE  /\ \A n \in 1 .. LastNode : Producer(graph, OutOf(n)) = n
         /\ \A t \in Values :
              \/ Producer(graph, t) \in 1 .. LastNode /\ OutOf(Producer(graph, t)) = t
              \/ Producer(graph, t) = 0 /\ \A n \in 1 .. LastNode : OutOf(n) # t
         /\ \A t : t \in graph.const \cup {graph.input} => Producer(graph, t) = 0
BY GraphFacts DEF Producer, OutOf

(* Every node runs in one of the two layouts; a reshape has to do with     *)
(* NCHW values only.                                                       *)
LayoutNames == {"NHWC", "NCHW"}
LayoutsInv ==
  /\ effective \in [1 .. LastNode -> LayoutNames]
  /\ \A n \in 1 .. LastNode : Renames(n) =>
       /\ effective[n] = "NCHW"
       /\ In(n, 1) \notin graph.const /\ Layout(In(n, 1)) = "NCHW"
       /\ IsMap(graph, OutOf(n)) =>
            \A k \in 1 .. LastNode : OutOf(n) \in Ins(graph, k) => effective[k] = "NCHW"

LEMMA NhwcLayoutsAre ==
  ASSUME graph \in Graphs
  PROVE  /\ NhwcLayouts(graph) \in [1 .. LastNode -> LayoutNames]
         /\ \A n \in 1 .. LastNode : Renames(n) => NhwcLayouts(graph)[n] = "NCHW"
<1> DEFINE planned == LayoutPlan(graph, TRUE).layout
           own == [n \in Nodes(graph) |->
                     IF planned[n] = "NHWC" /\ graph.nodes[n].op \in Lowerable
                       THEN "NHWC" ELSE "NCHW"]
<1>1. \A n \in Nodes(graph) :
        NhwcLayouts(graph)[n] =
          IF ChainAround(graph, n) # {} THEN own[CHOOSE k \in ChainAround(graph, n) : TRUE]
          ELSE own[n]
  BY DEF NhwcLayouts
<1>2. own \in [Nodes(graph) -> LayoutNames]
  BY DEF LayoutNames
<1>3. \A n : ChainAround(graph, n) # {} =>
               (CHOOSE k \in ChainAround(graph, n) : TRUE) \in Nodes(graph)
  BY DEF ChainAround
<1>4. ASSUME NEW n \in Nodes(graph) PROVE NhwcLayouts(graph)[n] \in LayoutNames
  <2> HIDE DEF own
  <2> QED
    BY <1>1, <1>2, <1>3
<1>5. NhwcLayouts(graph) \in [Nodes(graph) -> LayoutNames]
  <2>1. DOMAIN NhwcLayouts(graph) = Nodes(graph)
        /\ NhwcLayouts(graph) = [n \in Nodes(graph) |-> NhwcLayouts(graph)[n]]
    BY DEF NhwcLayouts
  <2> QED
    BY <1>4, <2>1
<1>6. ASSUME NEW n \in Nodes(graph), Renames(n) PROVE NhwcLayouts(graph)[n] = "NCHW"
  <2>1. graph.nodes[n].op = "reshape"
    BY <1>6 DEF Renames, Op
  <2>2. ASSUME NEW k \in ChainAround(graph, n) PROVE FALSE
    <3>1. k \in Nat /\ n \in Nat /\ k <= n /\ n <= k + 4 /\ MatchesGelu(graph, k)
      BY GraphFacts DEF ChainAround
    <3>2. n - k \in 0 .. 4 /\ k + (n - k) = n
      BY <3>1
    <3>3. graph.nodes[k + (n - k)].op = Chain[(n - k) + 1]
      BY <3>1, <3>2 DEF MatchesGelu
    <3>4. \A j \in 0 .. 4 : Chain[j + 1] # "reshape"
      BY DEF Chain
    <3> QED
      BY <2>1, <3>2, <3>3, <3>4
  <2>3. own[n] = "NCHW"
    BY <2>1 DEF Lowerable, Binary
  <2> QED
    BY <1>1, <2>2, <2>3
<1> QED
  BY <1>5, <1>6, GraphFacts

LEMMA LayoutsPlanned ==
  ASSUME graph \in Graphs, PlanLayouts
  PROVE  LayoutsInv'
<1>1. /\ graph' = graph /\ wasm' = wasm
      /\ effective' = IF strategy = "NCHW" THEN [n \in Nodes(graph) |-> "NCHW"]
                      ELSE NhwcLayouts(graph)
  BY DEF PlanLayouts, model
<1>2. /\ LastNode' = LastNode
      /\ \A n : /\ Renames(n)' = Renames(n) /\ OutOf(n)' = OutOf(n)
                /\ In(n, 1)' = In(n, 1)
      /\ DirectInput' = DirectInput
  BY <1>1 DEF LastNode, Renames, Op, OutOf, In, DirectInput
<1>3. Nodes(graph) = 1 .. LastNode
  BY GraphFacts
<1>4. effective' \in [1 .. LastNode -> LayoutNames]
  BY <1>1, <1>3, NhwcLayoutsAre DEF LayoutNames
<1>5. ASSUME NEW n \in 1 .. LastNode, Renames(n)
      PROVE  /\ effective'[n] = "NCHW"
             /\ In(n, 1) \notin graph.const /\ Layout(In(n, 1))' = "NCHW"
             /\ IsMap(graph, OutOf(n)) =>
                  \A k \in 1 .. LastNode : OutOf(n) \in Ins(graph, k) => effective'[k] = "NCHW"
  <2> DEFINE t == In(n, 1)
  <2>1. /\ t \notin graph.const /\ t \in Values
        /\ t = graph.input => ~InputCanStartNhwc(graph)
        /\ Producer(graph, t) # 0 => NhwcLayouts(graph)[Producer(graph, t)] = "NCHW"
        /\ IsMap(graph, OutOf(n)) =>
             \A k \in Readers(graph, OutOf(n)) : NhwcLayouts(graph)[k] = "NCHW"
    <3>1. RenamesNchw(graph) /\ n \in Nodes(graph) /\ graph.nodes[n].op = "reshape"
          /\ t = graph.nodes[n].ins[1]
      BY <1>3, <1>5, GraphsSound DEF Renames, Op, In
    <3>2. t \in Values
      BY <1>5, GraphFacts
    <3> HIDE DEF t
    <3> QED
      BY <3>1, <3>2 DEF RenamesNchw, OutOf
  <2> HIDE DEF t
  <2>2. effective'[n] = "NCHW"
    BY <1>1, <1>3, <1>5, NhwcLayoutsAre
  <2>3. Producer(graph, t) # 0 => effective'[Producer(graph, t)] = "NCHW"
    <3>1. Producer(graph, t) # 0 => Producer(graph, t) \in Nodes(graph)
      BY <1>3, <2>1, ProducerIs
    <3> QED
      BY <1>1, <2>1, <3>1
  <2>4. Layout(t)' = "NCHW"
    <3>1. t' = t
      BY <1>2 DEF t
    <3>2. t = graph.input => ~(wasm' /\ InputCanStartNhwc(graph'))
      BY <1>1, <2>1
    <3> QED
      BY <1>1, <2>3, <3>1, <3>2 DEF Layout, DirectInput
  <2>5. ASSUME IsMap(graph, OutOf(n)), NEW k \in 1 .. LastNode,
               OutOf(n) \in Ins(graph, k)
        PROVE  effective'[k] = "NCHW"
    <3>1. k \in Readers(graph, OutOf(n)) /\ k \in Nodes(graph)
      BY <1>3, <2>5 DEF Readers
    <3> QED
      BY <1>1, <2>1, <2>5, <3>1
  <2> QED
    BY <1>2, <2>1, <2>2, <2>4, <2>5 DEF t
<1> QED
  BY <1>1, <1>2, <1>4, <1>5 DEF LayoutsInv


-----------------------------------------------------------------------------
(* Names.                                                                  *)

(* A value is another name only as the result of a reshape.                *)
Named ==
  /\ alias_of \in [Values -> Nat]
  /\ \A t \in Values : alias_of[t] # NoTensor =>
       \E n \in 1 .. LastNode : Renames(n) /\ t = OutOf(n) /\ alias_of[t] = In(n, 1)
Renamed(t) == \E n \in 1 .. LastNode : Renames(n) /\ t = OutOf(n)

LEMMA AliasFacts ==
  ASSUME graph \in Graphs, Named,
         NEW t \in Values, alias_of[t] # NoTensor
  PROVE  /\ alias_of[t] \in Values /\ Renamed(t)
         /\ Producer(graph, t) \in 1 .. LastNode
         /\ Producer(graph, alias_of[t]) \in 0 .. Producer(graph, t) - 1
<1>1. PICK n \in 1 .. LastNode :
        Renames(n) /\ t = OutOf(n) /\ alias_of[t] = In(n, 1)
  BY DEF Named
<1>2. Producer(graph, t) = n
  BY <1>1, ProducerIs
<1>3. In(n, 1) \in Values /\ LastNode \in Nat
      /\ (In(n, 1) \in graph.const \cup {graph.input}
          \/ \E m \in 1 .. n - 1 : OutOf(m) = In(n, 1))
  BY GraphFacts
<1>4. Producer(graph, In(n, 1)) \in 0 .. n - 1
  <2>1. CASE In(n, 1) \in graph.const \cup {graph.input}
    <3>1. Producer(graph, In(n, 1)) = 0
      BY <2>1, ProducerIs
    <3> QED
      BY <1>3, <3>1
  <2>2. CASE \E m \in 1 .. n - 1 : OutOf(m) = In(n, 1)
    <3>1. PICK m \in 1 .. n - 1 : OutOf(m) = In(n, 1)
      BY <2>2
    <3>2. m \in 1 .. LastNode /\ m \in 0 .. n - 1
      BY <1>3, <3>1
    <3>3. Producer(graph, In(n, 1)) = m
      BY <3>1, <3>2, ProducerIs
    <3> QED
      BY <3>2, <3>3
  <2> QED
    BY <1>3, <2>1, <2>2
<1> QED
  BY <1>1, <1>2, <1>3, <1>4 DEF Renamed

(* resolve_alias_root comes to an end here too.                            *)
LEMMA RootIs ==
  ASSUME graph \in Graphs, Named
  PROVE  \A t \in Values :
           Root(t) = IF alias_of[t] = NoTensor THEN t ELSE Root(alias_of[t])
<1> DEFINE Next1(f) == [u \in Values |-> IF alias_of[u] = NoTensor THEN u ELSE f[alias_of[u]]]
           Unfolds(f, k) == \A u \in Values : Producer(graph, u) <= k => f[u] = Next1(f)[u]
           S == {k \in 0 .. LastNode : \E f \in [Values -> Values] : Unfolds(f, k)}
<1>1. LastNode \in Nat
  BY GraphFacts
<1>2. \A u \in Values : Producer(graph, u) \in 0 .. LastNode
  BY <1>1, ProducerIs
<1>3. \A u \in Values : alias_of[u] # NoTensor =>
         /\ alias_of[u] \in Values
         /\ Producer(graph, alias_of[u]) \in 0 .. Producer(graph, u) - 1
  BY AliasFacts
<1>4. \A f \in [Values -> Values] : Next1(f) \in [Values -> Values]
  BY <1>3
<1>5. 0 \in S
  <2> DEFINE f == [u \in Values |-> u]
  <2>1. f \in [Values -> Values]
    OBVIOUS
  <2>2. Unfolds(f, 0)
    BY <1>2, <1>3
  <2>3. 0 \in 0 .. LastNode
    BY <1>1
  <2> HIDE DEF f, Next1
  <2> QED
    BY <2>1, <2>2, <2>3
<1>6. ASSUME NEW k \in 0 .. LastNode - 1, k \in S PROVE k + 1 \in S
  <2>1. PICK f \in [Values -> Values] : Unfolds(f, k)
    BY <1>6
  <2> DEFINE h == Next1(f)
  <2>2. h \in [Values -> Values]
    BY <1>4
  <2>3. ASSUME NEW u \in Values, Producer(graph, u) <= k + 1
        PROVE  h[u] = IF alias_of[u] = NoTensor THEN u ELSE h[alias_of[u]]
    <3>1. CASE alias_of[u] = NoTensor
      BY <3>1
    <3>2. CASE alias_of[u] # NoTensor
      <4>1. alias_of[u] \in Values /\ Producer(graph, alias_of[u]) <= k
        BY <1>1, <1>2, <1>3, <2>3, <3>2
      <4>2. f[alias_of[u]] = h[alias_of[u]]
        BY <2>1, <4>1
      <4> QED
        BY <3>2, <4>2
    <3> QED
      BY <3>1, <3>2
  <2> HIDE DEF h
  <2>4. Unfolds(h, k + 1)
    BY <2>3
  <2> QED
    BY <1>1, <2>2, <2>4
<1>7. LastNode \in S
  <2> HIDE DEF S
  <2>1. 0 .. LastNode \subseteq S
    BY <1>1, <1>5, <1>6, Induction
  <2> QED
    BY <1>1, <2>1
<1>8. PICK f : f \in [Values -> Values] /\ Unfolds(f, LastNode)
  BY <1>7
<1>9. f = Next1(f)
  <2>1. \A u \in Values : f[u] = Next1(f)[u]
    BY <1>2, <1>8
  <2> QED
    BY <1>4, <1>8, <2>1
<1> DEFINE root == CHOOSE g : g = [u \in Values |-> IF alias_of[u] = NoTensor THEN u
                                                        ELSE g[alias_of[u]]]
<1>10. root = [u \in Values |-> IF alias_of[u] = NoTensor THEN u ELSE root[alias_of[u]]]
  BY <1>9
<1>11. \A t : Root(t) = root[t]
  BY DEF Root, NoTensor
<1> HIDE DEF root
<1> QED
  BY <1>3, <1>10, <1>11

(* A name stands for an NCHW value, and is one.                            *)
LEMMA RootFacts ==
  ASSUME graph \in Graphs, LayoutsInv, Named, NEW t \in Values
  PROVE  /\ Root(t) \in Values /\ alias_of[Root(t)] = NoTensor
         /\ alias_of[t] = NoTensor => Root(t) = t
         /\ alias_of[t] # NoTensor => /\ Root(t) \notin graph.const
                                      /\ Layout(Root(t)) = "NCHW"
<1> DEFINE Unfolds(u) ==
             /\ Root(u) \in Values /\ alias_of[Root(u)] = NoTensor
             /\ alias_of[u] = NoTensor => Root(u) = u
             /\ alias_of[u] # NoTensor => /\ Root(u) \notin graph.const
                                          /\ Layout(Root(u)) = "NCHW"
           S == {k \in 0 .. LastNode : \A u \in Values : Producer(graph, u) <= k => Unfolds(u)}
<1>1. LastNode \in Nat
  BY GraphFacts
<1>2. \A u \in Values : Producer(graph, u) \in 0 .. LastNode
  BY <1>1, ProducerIs
<1>3. \A u \in Values : alias_of[u] = NoTensor => Unfolds(u)
  BY RootIs
<1>4. 0 \in S
  <2>1. ASSUME NEW u \in Values, Producer(graph, u) <= 0 PROVE alias_of[u] = NoTensor
    BY <1>1, <2>1, AliasFacts
  <2> HIDE DEF Unfolds
  <2> QED
    BY <1>1, <1>3, <2>1
<1>5. ASSUME NEW k \in 0 .. LastNode - 1, k \in S PROVE k + 1 \in S
  <2>1. ASSUME NEW u \in Values, Producer(graph, u) <= k + 1, alias_of[u] # NoTensor
        PROVE  Unfolds(u)
    <3> DEFINE a == alias_of[u]
    <3>1. a \in Values /\ Producer(graph, a) \in 0 .. Producer(graph, u) - 1
          /\ Producer(graph, u) \in 1 .. LastNode
      BY <2>1, AliasFacts
    <3>2. Producer(graph, a) <= k
      BY <1>1, <2>1, <3>1
    <3>3. Unfolds(a)
      BY <1>5, <3>1, <3>2
    <3>4. Root(u) = Root(a)
      BY <2>1, RootIs
    <3>5. PICK n \in 1 .. LastNode : Renames(n) /\ a = In(n, 1)
      BY <2>1 DEF Named
    <3>6. a \notin graph.const /\ Layout(a) = "NCHW"
      BY <3>5 DEF LayoutsInv
    <3> QED
      BY <2>1, <3>3, <3>4, <3>6
  <2> HIDE DEF Unfolds
  <2> QED
    BY <1>1, <1>3, <1>5, <2>1
<1>6. LastNode \in S
  <2> HIDE DEF S
  <2>1. 0 .. LastNode \subseteq S
    BY <1>1, <1>4, <1>5, Induction
  <2> QED
    BY <1>1, <2>1
<1> QED
  BY <1>2, <1>6

(* The result of a reshape is never in the way of a conversion.            *)
LEMMA RenamedFacts ==
  ASSUME graph \in Graphs, LayoutsInv, NEW t, Renamed(t)
  PROVE  /\ t \in Values /\ t \notin graph.const /\ t # graph.input
         /\ Layout(t) = "NCHW"
         /\ \A n \in 1 .. LastNode :
              t \in Ins(graph, n) /\ IsMap(graph, t) => effective[n] = "NCHW"
<1>1. PICK n \in 1 .. LastNode : Renames(n) /\ t = OutOf(n)
  BY DEF Renamed
<1>2. t \in Values /\ t \notin graph.const /\ t # graph.input
  BY <1>1, GraphFacts
<1>3. Producer(graph, t) = n /\ n # 0
  BY <1>1, GraphFacts, ProducerIs
<1>4. effective[n] = "NCHW"
  BY <1>1 DEF LayoutsInv
<1>5. Layout(t) = "NCHW"
  BY <1>2, <1>3, <1>4 DEF Layout
<1> QED
  BY <1>1, <1>2, <1>5 DEF LayoutsInv

-----------------------------------------------------------------------------
(* What lower_ops does at a node, in either pass.                          *)

(* The fold of a convolution does not depend on the names there are yet: a *)
(* value with two names is not in NHWC, and no constant.                   *)
Bare(n) == [span |-> 1, out |-> OutOf(n), bias |-> FALSE, residual |-> NoTensor]
SumOf(n, f) ==
  LET add == n + f.span
      other == OtherOperand(add, f.out)
      grown == [f EXCEPT !.span = @ + 1, !.out = OutOf(add)]
  IN  IF ~AddsTo(add, f.out) THEN f
      ELSE IF other \in graph.const
        THEN IF f.bias \/ Bytes(other) # 1 THEN f ELSE [grown EXCEPT !.bias = TRUE]
      ELSE IF \/ f.residual # NoTensor \/ Bytes(other) # Bytes(f.out)
              \/ Layout(other) # "NHWC"
        THEN f ELSE [grown EXCEPT !.residual = other]
FoldOf(n) ==
  IF Folds(n) THEN FoldActivation(n, SumOf(n, SumOf(n, Bare(n)))) ELSE Bare(n)

Folded(n, f) ==
  /\ f = [span |-> f.span, out |-> f.out, bias |-> f.bias, residual |-> f.residual]
  /\ f.span \in Nat \ {0} /\ n + f.span - 1 <= LastNode
  /\ f.out = OutOf(n + f.span - 1)
  /\ f.span > 1 => ~Renames(n + f.span - 1)
  /\ f.residual # NoTensor =>
       /\ f.residual \in Values \ graph.const /\ Layout(f.residual) = "NHWC"

LEMMA OtherFacts ==
  ASSUME graph \in Graphs, NEW n \in 1 .. LastNode, NEW t, AddsTo(n, t)
  PROVE  /\ OtherOperand(n, t) \in Values
         /\ ~Renames(n)
<1>1. Op(n) = "add" /\ OtherOperand(n, t) # NoTensor
  BY DEF AddsTo
<1>2. In(n, 1) \in Values /\ In(n, 2) \in Values
  BY <1>1, GraphFacts DEF Binary
<1> QED
  BY <1>1, <1>2 DEF OtherOperand, Renames

LEMMA SumFolded ==
  ASSUME graph \in Graphs, NEW n \in 1 .. LastNode, NEW f, Folded(n, f)
  PROVE  Folded(n, SumOf(n, f))
<1> DEFINE add == n + f.span
           other == OtherOperand(add, f.out)
           g == SumOf(n, f)
<1>1. LastNode \in Nat /\ n \in Nat /\ n >= 1 /\ f.span \in Nat /\ f.span >= 1 /\ add \in Nat
  BY GraphFacts DEF Folded
<1>2. CASE g = f
  BY <1>2
<1>3. CASE g # f
  <2>1. AddsTo(add, f.out)
    BY <1>3 DEF SumOf
  <2>2. add \in 1 .. LastNode
    <3>1. add <= LastNode /\ add >= 1
      BY <1>1, <2>1 DEF AddsTo
    <3> HIDE DEF add
    <3> QED
      BY <1>1, <3>1
  <2>3. other \in Values /\ ~Renames(add)
    BY <2>1, <2>2, OtherFacts
  <2>4. \/ g = [span |-> f.span + 1, out |-> OutOf(add), bias |-> TRUE, residual |-> f.residual]
        \/ /\ g = [span |-> f.span + 1, out |-> OutOf(add), bias |-> f.bias, residual |-> other]
           /\ other \notin graph.const /\ Layout(other) = "NHWC"
    BY <1>3, <2>1 DEF SumOf, Folded
  <2>5. add = n + (f.span + 1) - 1 /\ f.span + 1 \in Nat \ {0}
    BY <1>1
  <2> HIDE DEF g, other
  <2>6. g.span = f.span + 1 /\ g.out = OutOf(add)
        /\ g = [span |-> g.span, out |-> g.out, bias |-> g.bias, residual |-> g.residual]
    BY <2>4
  <2>7. n + g.span - 1 = add /\ g.span \in Nat \ {0}
    BY <2>5, <2>6
  <2>8. g.residual # NoTensor =>
          g.residual \in Values \ graph.const /\ Layout(g.residual) = "NHWC"
    BY <2>3, <2>4 DEF Folded
  <2>9. n + g.span - 1 <= LastNode
    BY <2>2, <2>7, <1>1
  <2> HIDE DEF add
  <2> QED
    BY <2>3, <2>6, <2>7, <2>8, <2>9 DEF Folded, g
<1> QED
  BY <1>2, <1>3

LEMMA ActivationFolded ==
  ASSUME graph \in Graphs, NEW n \in 1 .. LastNode, NEW f, Folded(n, f)
  PROVE  Folded(n, FoldActivation(n, f))
<1> DEFINE next == n + f.span
           g == FoldActivation(n, f)
<1>1. LastNode \in Nat /\ n \in Nat /\ n >= 1 /\ f.span \in Nat /\ f.span >= 1 /\ next \in Nat
  BY GraphFacts DEF Folded
<1>2. CASE g = f
  BY <1>2
<1>3. CASE g # f
  <2>1. PICK more \in {1, 5} :
          /\ g = [span |-> f.span + more, out |-> OutOf(next + more - 1), bias |-> f.bias,
                  residual |-> f.residual]
          /\ next + more - 1 <= LastNode /\ Op(next + more - 1) \in {"relu", "mul"}
    <3>1. CASE next <= LastNode /\ Op(next) = "relu" /\ In(next, 1) = f.out
               /\ UseCount(graph, f.out) = 1
      <4>1. g = [f EXCEPT !.span = @ + 1, !.out = OutOf(next)] /\ next + 1 - 1 = next
        BY <1>1, <3>1 DEF FoldActivation
      <4> HIDE DEF next, g
      <4>2. g = [span |-> f.span + 1, out |-> OutOf(next), bias |-> f.bias, residual |-> f.residual]
        BY <4>1 DEF Folded
      <4> QED
        BY <3>1, <4>1, <4>2
    <3>2. CASE ~(next <= LastNode /\ Op(next) = "relu" /\ In(next, 1) = f.out
                 /\ UseCount(graph, f.out) = 1)
      <4>1. /\ g = [f EXCEPT !.span = @ + 5, !.out = OutOf(next + 4)]
            /\ next + 5 - 1 = next + 4
            /\ next + 4 <= LastNode /\ GeluAt(graph, next)
        BY <1>1, <1>3, <3>2 DEF FoldActivation
      <4> HIDE DEF next, g
      <4>2. g = [span |-> f.span + 5, out |-> OutOf(next + 4), bias |-> f.bias, residual |-> f.residual]
        BY <4>1 DEF Folded
      <4>3. Op(next + 4) = "mul"
        BY <4>1 DEF GeluAt, MatchesGelu, Chain, Op
      <4> QED
        BY <4>1, <4>2, <4>3
    <3> QED
      BY <3>1, <3>2
  <2>2. n + (f.span + more) - 1 = next + more - 1 /\ f.span + more \in Nat \ {0}
    BY <1>1
  <2> HIDE DEF g, next
  <2>3. g.span = f.span + more /\ g.out = OutOf(next + more - 1) /\ g.residual = f.residual
        /\ g = [span |-> g.span, out |-> g.out, bias |-> g.bias, residual |-> g.residual]
    BY <2>1
  <2>4. ~Renames(next + more - 1)
    BY <2>1 DEF Renames
  <2> QED
    BY <2>1, <2>2, <2>3, <2>4 DEF Folded, g
<1> QED
  BY <1>2, <1>3

LEMMA FoldFacts ==
  ASSUME graph \in Graphs, NEW n \in 1 .. LastNode
  PROVE  Folded(n, FoldOf(n)) /\ (~Folds(n) => FoldOf(n) = Bare(n))
<1>1. Folded(n, Bare(n))
  <2>1. n + 1 - 1 = n /\ n <= LastNode
    BY GraphFacts
  <2> QED
    BY <2>1 DEF Folded, Bare
<1> QED
  BY <1>1, SumFolded, ActivationFolded DEF FoldOf

LEMMA FoldIs ==
  ASSUME graph \in Graphs, LayoutsInv, Named, NEW n \in 1 .. LastNode
  PROVE  Fold(n) = FoldOf(n)
<1>1. ASSUME NEW f, Folded(n, f)
      PROVE  FoldAdd(n, f) = SumOf(n, f)
  <2> DEFINE add == n + f.span
             other == OtherOperand(add, f.out)
  <2>1. CASE ~AddsTo(add, f.out)
    BY <2>1 DEF FoldAdd, SumOf
  <2>2. CASE AddsTo(add, f.out)
    <3>1. add \in 1 .. LastNode
      <4>1. LastNode \in Nat /\ f.span \in Nat /\ add <= LastNode
        BY <1>1, <2>2, GraphFacts DEF Folded, AddsTo
      <4> QED
        BY <4>1
    <3>2. other \in Values
      BY <2>2, <3>1, OtherFacts
    <3>3. CASE alias_of[other] = NoTensor
      <4>1. Root(other) = other
        BY <3>2, <3>3, RootFacts
      <4> QED
        BY <2>2, <4>1 DEF FoldAdd, SumOf, IsConst, NoTensor
    <3>4. CASE alias_of[other] # NoTensor
      <4>1. Root(other) \notin graph.const /\ Layout(Root(other)) = "NCHW"
        BY <3>2, <3>4, RootFacts
      <4>2. other \notin graph.const /\ Layout(other) = "NCHW"
        BY <3>2, <3>4, AliasFacts, RenamedFacts
      <4> HIDE DEF other
      <4>3. FoldAdd(n, f) = f
        BY <2>2, <4>1 DEF FoldAdd, IsConst, other
      <4>4. SumOf(n, f) = f
        BY <2>2, <4>2 DEF SumOf, other
      <4> QED
        BY <4>3, <4>4
    <3> QED
      BY <3>3, <3>4
  <2> QED
    BY <2>1, <2>2
<1>2. Folded(n, Bare(n)) /\ Folded(n, SumOf(n, Bare(n)))
  <2>1. n + 1 - 1 = n /\ n <= LastNode
    BY GraphFacts
  <2>2. Folded(n, Bare(n))
    BY <2>1 DEF Folded, Bare
  <2> QED
    BY <2>2, SumFolded
<1> QED
  BY <1>1, <1>2 DEF Fold, FoldOf, Bare, NoTensor

SpanOf(n) == IF GeluAt(graph, n) THEN 5 ELSE FoldOf(n).span
Follow(n) == n + SpanOf(n)
Last(n) == n + SpanOf(n) - 1
Result(n) == OutOf(Last(n))

LEMMA SpanFacts ==
  ASSUME graph \in Graphs, NEW n \in 1 .. LastNode
  PROVE  /\ SpanOf(n) \in Nat \ {0} /\ Last(n) \in n .. LastNode
         /\ Follow(n) \in n + 1 .. LastNode + 1 /\ Follow(n) = Last(n) + 1
         /\ ~Renames(n) => ~Renames(Last(n))
         /\ Renames(n) => ~GeluAt(graph, n) /\ SpanOf(n) = 1 /\ Result(n) = OutOf(n)
<1>1. LastNode \in Nat /\ n \in Nat
  BY GraphFacts
<1>2. Folded(n, FoldOf(n)) /\ (~Folds(n) => FoldOf(n) = Bare(n))
  BY FoldFacts
<1>3. ASSUME GeluAt(graph, n)
      PROVE  n + 4 <= LastNode /\ Op(n) = "div" /\ Op(n + 4) = "mul"
  <2>1. n + 0 = n /\ 0 \in 0 .. 4 /\ 4 \in 0 .. 4
    BY <1>1
  <2>2. \A k \in 0 .. 4 : graph.nodes[n + k].op = Chain[k + 1]
    BY <1>3 DEF GeluAt, MatchesGelu
  <2>3. graph.nodes[n].op = Chain[1] /\ graph.nodes[n + 4].op = Chain[5]
    BY <2>1, <2>2
  <2> QED
    BY <1>3, <2>3 DEF GeluAt, MatchesGelu, LastNode, Op, Chain
<1>4. /\ SpanOf(n) \in Nat \ {0} /\ n + SpanOf(n) - 1 <= LastNode
      /\ ~Renames(n) => ~Renames(n + SpanOf(n) - 1)
  <2>1. CASE GeluAt(graph, n)
    <3>1. SpanOf(n) = 5 /\ n + 5 - 1 = n + 4
      BY <1>1, <2>1 DEF SpanOf
    <3> QED
      BY <1>3, <2>1, <3>1 DEF Renames
  <2>2. CASE ~GeluAt(graph, n)
    <3>1. SpanOf(n) = FoldOf(n).span
      BY <2>2 DEF SpanOf
    <3>2. SpanOf(n) \in Nat \ {0} /\ n + SpanOf(n) - 1 <= LastNode
          /\ (SpanOf(n) > 1 => ~Renames(n + SpanOf(n) - 1))
      BY <1>2, <3>1 DEF Folded
    <3>3. SpanOf(n) = 1 => n + SpanOf(n) - 1 = n
      BY <1>1
    <3>4. SpanOf(n) > 1 \/ SpanOf(n) = 1
      BY <3>2
    <3> QED
      BY <3>2, <3>3, <3>4
  <2> QED
    BY <2>1, <2>2
<1>5. Renames(n) => ~GeluAt(graph, n) /\ SpanOf(n) = 1 /\ n + 1 - 1 = n
  <2>1. Renames(n) => ~Folds(n) /\ ~GeluAt(graph, n)
    BY <1>3 DEF Renames, Folds, DenseConv, Op
  <2>2. Bare(n).span = 1
    BY DEF Bare
  <2> QED
    BY <1>1, <1>2, <2>1, <2>2 DEF SpanOf
<1> QED
  BY <1>1, <1>4, <1>5 DEF Follow, Last, Result

(* The nodes that lower_ops comes to.                                      *)
Heads ==
  {n \in 1 .. LastNode + 1 :
     \A S \in SUBSET (1 .. LastNode + 1) :
       1 \in S /\ (\A m \in S : m <= LastNode => Follow(m) \in S) => n \in S}

LEMMA HeadsLeast ==
  ASSUME NEW S, S \subseteq Heads, 1 \in S, \A m \in S : m <= LastNode => Follow(m) \in S
  PROVE  S = Heads
<1>1. S \in SUBSET (1 .. LastNode + 1)
  BY DEF Heads
<1> QED
  BY <1>1 DEF Heads

LEMMA HeadsFacts ==
  ASSUME graph \in Graphs
  PROVE  /\ Heads \subseteq 1 .. LastNode + 1 /\ 1 \in Heads
         /\ \A h \in Heads : h <= LastNode => h \in 1 .. LastNode /\ Follow(h) \in Heads
         /\ \A h, k \in Heads : h < k => Follow(h) <= k
<1>1. LastNode \in Nat
  BY GraphFacts
<1>2. Heads \subseteq 1 .. LastNode + 1
  BY DEF Heads
<1>3. 1 \in Heads
  <2>1. 1 \in 1 .. LastNode + 1
    BY <1>1
  <2> QED
    BY <2>1 DEF Heads
<1>4. ASSUME NEW h \in Heads, h <= LastNode
      PROVE  h \in 1 .. LastNode /\ Follow(h) \in Heads
  <2>1. h \in 1 .. LastNode
    BY <1>1, <1>2, <1>4
  <2>2. Follow(h) \in 1 .. LastNode + 1
    BY <1>1, <2>1, SpanFacts
  <2> QED
    BY <1>4, <2>1, <2>2 DEF Heads
<1>5. \A h \in Heads : h \in Nat /\ h >= 1 /\ h <= LastNode + 1
  BY <1>1, <1>2
<1>6. \A h \in Heads : h <= LastNode => Follow(h) \in Nat /\ Follow(h) > h
  <2> TAKE h \in Heads
  <2> HAVE h <= LastNode
  <2>1. h \in 1 .. LastNode
    BY <1>4
  <2> QED
    BY <1>1, <2>1, SpanFacts
<1>7. \A h, k \in Heads : h < k => Follow(h) <= k
  <2> DEFINE K == {k \in Heads : \A h \in Heads : h < k => Follow(h) <= k}
  <2>1. 1 \in K
    BY <1>3, <1>5
  <2>2. ASSUME NEW n \in K, n <= LastNode PROVE Follow(n) \in K
    <3>1. n \in Heads /\ Follow(n) \in Heads /\ \A h \in Heads : h < n => Follow(h) <= n
      BY <1>4, <2>2
    <3> DEFINE S == {m \in Heads : ~(n < m /\ m < Follow(n))}
    <3>2. S = Heads
      <4>1. 1 \in S
        BY <1>3, <1>5, <3>1
      <4>2. ASSUME NEW m \in S, m <= LastNode PROVE Follow(m) \in S
        <5>1. m \in Heads /\ Follow(m) \in Heads /\ Follow(m) \in Nat /\ Follow(m) > m
          BY <1>4, <1>6, <4>2
        <5>2. CASE m < n
          BY <1>5, <3>1, <5>1, <5>2
        <5>3. CASE m = n
          BY <1>5, <3>1, <5>1, <5>3
        <5>4. CASE m > n
          <6>1. m >= Follow(n)
            BY <1>5, <1>6, <2>2, <3>1, <4>2, <5>4
          <6> QED
            BY <1>5, <1>6, <2>2, <3>1, <5>1, <6>1
        <5> QED
          BY <1>5, <3>1, <5>1, <5>2, <5>3, <5>4
      <4> HIDE DEF S
      <4>3. S \subseteq Heads
        BY DEF S
      <4> QED
        BY <4>1, <4>2, <4>3, HeadsLeast
    <3>3. ASSUME NEW h \in Heads, h < Follow(n) PROVE Follow(h) <= Follow(n)
      <4>1. h \in S
        BY <3>2
      <4>2. h <= n
        BY <1>5, <3>1, <3>3, <4>1
      <4>3. CASE h = n
        BY <1>6, <2>2, <3>1, <4>3
      <4>4. CASE h < n
        <5>1. Follow(h) <= n /\ Follow(n) > n
          BY <1>6, <2>2, <3>1, <4>4
        <5>2. h <= LastNode
          BY <1>1, <1>5, <2>2, <3>1, <4>4
        <5> QED
          BY <1>5, <1>6, <2>2, <3>1, <5>1, <5>2
      <4> QED
        BY <1>5, <3>1, <4>2, <4>3, <4>4
    <3> QED
      BY <3>1, <3>3
  <2>3. K \subseteq Heads
    OBVIOUS
  <2> HIDE DEF K
  <2>4. K = Heads
    BY <2>1, <2>2, <2>3, HeadsLeast
  <2> QED
    BY <2>4 DEF K
<1> QED
  BY <1>2, <1>3, <1>4, <1>7

(* A step from a head: the heads behind it, and the ones that are left.    *)
LEMMA HeadsBelow ==
  ASSUME graph \in Graphs, NEW n \in Heads, n <= LastNode
  PROVE  /\ n \in 1 .. LastNode /\ Follow(n) \in Heads /\ Follow(n) > n
         /\ \A h \in Heads : h < Follow(n) => h = n \/ h < n
         /\ \A h \in Heads : h < n => Last(h) < n
         /\ \A h \in Heads : h >= n /\ h <= LastNode => Last(h) >= Last(n)
<1>1. LastNode \in Nat /\ \A h \in Heads : h \in Nat /\ h >= 1
  BY GraphFacts, HeadsFacts
<1>2. n \in 1 .. LastNode /\ Follow(n) \in Heads
  BY HeadsFacts
<1>3. \A h \in Heads : h <= LastNode =>
         /\ Last(h) \in Nat /\ Follow(h) = Last(h) + 1 /\ Last(h) >= h
  <2> TAKE h \in Heads
  <2> HAVE h <= LastNode
  <2>1. h \in 1 .. LastNode
    BY HeadsFacts
  <2> QED
    BY <1>1, <2>1, SpanFacts
<1>4. ASSUME NEW h \in Heads, h < Follow(n) PROVE h = n \/ h < n
  <2>1. n < h => Follow(n) <= h
    BY <1>4, HeadsFacts
  <2>2. Follow(n) \in Nat /\ h \in Nat /\ n \in Nat
    BY <1>1, <1>2
  <2> QED
    BY <1>4, <2>1, <2>2
<1>5. ASSUME NEW h \in Heads, h < n PROVE Last(h) < n
  <2>1. h <= LastNode /\ Follow(h) <= n
    BY <1>1, <1>2, <1>5, HeadsFacts
  <2> QED
    BY <1>1, <1>3, <2>1
<1>6. ASSUME NEW h \in Heads, h >= n, h <= LastNode PROVE Last(h) >= Last(n)
  <2>1. CASE h = n
    BY <1>3, <2>1
  <2>2. CASE h > n
    <3>1. Follow(n) <= h
      BY <2>2, HeadsFacts
    <3> QED
      BY <1>1, <1>3, <1>6, <3>1
  <2> QED
    BY <1>1, <1>6, <2>1, <2>2
<1> QED
  BY <1>1, <1>2, <1>3, <1>4, <1>5, <1>6

(* The values that an operation or the caller writes, and those that a     *)
(* reader, or the caller, takes in the layout they are not written in.     *)
Written(v) ==
  \/ v = graph.input
  \/ \E h \in Heads : h <= LastNode /\ ~Renames(h) /\ v = Result(h)
ReadAt(h) == IF GeluAt(graph, h) THEN h .. h + 4 ELSE {h}
Differs(v, k) ==
  /\ v \in Ins(graph, k) /\ v \notin graph.const
  /\ IsMap(graph, v) /\ Layout(v) # effective[k]
Exports(v) == v \in graph.outputs /\ v \notin graph.neutral /\ Layout(v) = "NHWC"
Wanted(v) ==
  \/ \E h \in Heads : /\ h <= LastNode /\ ~Renames(h)
                      /\ \E k \in ReadAt(h) : Differs(v, k)
  \/ Exports(v)

LEMMA ReadAtFacts ==
  ASSUME graph \in Graphs, NEW h \in 1 .. LastNode, NEW k \in ReadAt(h)
  PROVE  k \in 1 .. LastNode /\ k <= Last(h)
<1>1. LastNode \in Nat /\ h \in Nat /\ h >= 1 /\ Last(h) \in h .. LastNode
  BY GraphFacts, SpanFacts
<1>2. GeluAt(graph, h) => Last(h) = h + 4
  BY <1>1 DEF Last, SpanOf
<1>3. (k \in h .. h + 4 /\ GeluAt(graph, h)) \/ k = h
  BY DEF ReadAt
<1> QED
  BY <1>1, <1>2, <1>3

LEMMA WrittenFacts ==
  ASSUME graph \in Graphs, LayoutsInv, NEW v, Written(v)
  PROVE  v \in Values /\ v \notin graph.const /\ ~Renamed(v)
<1>1. CASE v = graph.input
  BY <1>1, GraphFacts, RenamedFacts
<1>2. CASE v # graph.input
  <2>1. PICK h \in Heads : h <= LastNode /\ ~Renames(h) /\ v = Result(h)
    BY <1>2 DEF Written
  <2>2. h \in 1 .. LastNode
    BY <2>1, HeadsFacts
  <2>3. Last(h) \in 1 .. LastNode /\ ~Renames(Last(h)) /\ v = OutOf(Last(h))
    BY <2>1, <2>2, SpanFacts, GraphFacts DEF Result
  <2> QED
    BY <2>3, GraphFacts DEF Renamed
<1> QED
  BY <1>1, <1>2

LEMMA OutputFacts ==
  ASSUME graph \in Graphs, NEW v \in graph.outputs
  PROVE  v \in Values /\ v \notin graph.const /\ \E n \in 1 .. LastNode : v = OutOf(n)
<1>1. PICK n \in Nodes(graph) : v = Out(graph, n)
  BY GraphsSound DEF WellFormed
<1>2. n \in 1 .. LastNode /\ v = OutOf(n)
  BY <1>1, GraphFacts DEF Nodes, Out, OutOf
<1> QED
  BY <1>2, GraphFacts

LEMMA WantedFacts ==
  ASSUME graph \in Graphs, LayoutsInv, NEW v, Wanted(v)
  PROVE  v \in Values /\ v \notin graph.const /\ ~Renamed(v)
<1>1. CASE Exports(v)
  <2>1. v \in Values /\ v \notin graph.const
    BY <1>1, OutputFacts DEF Exports
  <2> QED
    BY <1>1, <2>1, RenamedFacts DEF Exports
<1>2. CASE ~Exports(v)
  <2>1. PICK h \in Heads : h <= LastNode /\ \E k \in ReadAt(h) : Differs(v, k)
    BY <1>2 DEF Wanted
  <2>2. PICK k \in ReadAt(h) : Differs(v, k)
    BY <2>1
  <2>3. k \in 1 .. LastNode
    BY <2>1, HeadsFacts, ReadAtFacts
  <2> QED
    BY <2>2, <2>3, GraphFacts, RenamedFacts DEF Differs
<1> QED
  BY <1>1, <1>2

(* The steps behind the first one keep all of this.                        *)
LEMMA SameNodes ==
  ASSUME UNCHANGED <<graph, wasm, effective>>
  PROVE  /\ LastNode' = LastNode /\ Values' = Values
         /\ \A n : /\ Renames(n)' = Renames(n) /\ OutOf(n)' = OutOf(n)
                   /\ In(n, 1)' = In(n, 1)
         /\ \A t : Layout(t)' = Layout(t) /\ Renamed(t)' = Renamed(t)
         /\ LayoutsInv' = LayoutsInv
         /\ \A n : FoldOf(n)' = FoldOf(n)
<1>1. LastNode' = LastNode /\ Values' = Values
  BY DEF LastNode, Values
<1>2. \A n : /\ Renames(n)' = Renames(n) /\ OutOf(n)' = OutOf(n)
             /\ In(n, 1)' = In(n, 1) /\ In(n, 2)' = In(n, 2) /\ Op(n)' = Op(n)
  BY DEF Renames, Op, OutOf, In
<1>3. \A t : Layout(t)' = Layout(t)
  BY DEF Layout, DirectInput
<1>4. \A t : Renamed(t)' = Renamed(t)
  BY <1>1, <1>2 DEF Renamed
<1>5. LayoutsInv' = LayoutsInv
  BY <1>1, <1>2, <1>3 DEF LayoutsInv
<1>6. \A n, f : SumOf(n, f)' = SumOf(n, f)
  BY DEF SumOf, AddsTo, OtherOperand, Bytes, OutOf, In, Op,
     LastNode, NoTensor, Layout, DirectInput
<1>7. \A n, f : FoldActivation(n, f)' = FoldActivation(n, f)
  BY <1>1 DEF FoldActivation, Op, In, OutOf
<1>8. \A n : Folds(n)' = Folds(n) /\ Bare(n)' = Bare(n)
  BY <1>2, <1>3 DEF Folds, Bare
<1>9. \A n : FoldOf(n)' = FoldOf(n)
  BY <1>6, <1>7, <1>8 DEF FoldOf
<1> QED
  BY <1>1, <1>2, <1>3, <1>4, <1>5, <1>9

LEMMA SameHeads ==
  ASSUME UNCHANGED <<graph, wasm, effective>>
  PROVE  /\ Heads' = Heads
         /\ \A n : Follow(n)' = Follow(n) /\ Last(n)' = Last(n)
                   /\ Result(n)' = Result(n) /\ ReadAt(n)' = ReadAt(n)
         /\ \A v, k : Differs(v, k)' = Differs(v, k)
         /\ \A v : Written(v)' = Written(v) /\ Wanted(v)' = Wanted(v) /\ Exports(v)' = Exports(v)
<1>1. \A n : SpanOf(n)' = SpanOf(n)
  BY SameNodes DEF SpanOf
<1>2. \A n : Follow(n)' = Follow(n) /\ Last(n)' = Last(n) /\ Result(n)' = Result(n)
             /\ ReadAt(n)' = ReadAt(n)
  BY <1>1, SameNodes DEF Follow, Last, Result, ReadAt
<1>3. Heads' = Heads
  BY <1>2, SameNodes DEF Heads
<1>4. \A v, k : Differs(v, k)' = Differs(v, k)
  BY SameNodes DEF Differs
<1>5. \A v : Exports(v)' = Exports(v)
  BY SameNodes DEF Exports
<1>6. \A v : Written(v)' = Written(v) /\ Wanted(v)' = Wanted(v)
  BY <1>2, <1>3, <1>4, <1>5, SameNodes DEF Written, Wanted
<1> QED
  BY <1>2, <1>3, <1>4, <1>5, <1>6

-----------------------------------------------------------------------------
(* The conversions in front of a node.                                     *)

LEMMA SlotFacts ==
  ASSUME graph \in Graphs, NEW n \in 1 .. LastNode
  PROVE  /\ Slots(graph, n) \subseteq Nat
         /\ \A s \in Slots(graph, n) : In(n, s) \in Ins(graph, n)
         /\ \A t \in Ins(graph, n) : \E s \in Slots(graph, n) : t = In(n, s)
<1>1. n \in Nodes(graph)
  BY GraphFacts DEF Nodes
<1>2. graph.nodes[n].ins \in Seq(Tensors(graph))
  BY <1>1, GraphsSound DEF WellTyped
<1>3. DOMAIN graph.nodes[n].ins \subseteq Nat
  <2>1. Len(graph.nodes[n].ins) \in Nat /\ DOMAIN graph.nodes[n].ins = 1 .. Len(graph.nodes[n].ins)
    BY <1>2, LenProperties
  <2> QED
    BY <2>1
<1> QED
  BY <1>3 DEF Slots, In, Ins

(* materialize_input_converts converts values that differ at the node, and *)
(* ends when none is left that has no alternate slot.                      *)
LEMMA PendingFacts ==
  ASSUME graph \in Graphs, LayoutsInv, Named,
         node \in 1 .. LastNode, \A v \in Values : alt_producer[v] \in Int
  PROVE  /\ Pending = {} =>
              \A k \in ReadAt(node) : \A v : Differs(v, k) => alt_producer[v] >= 0
         /\ Pending # {} =>
              LET first == FirstPending
                  r == Root(In(first[1], first[2]))
              IN  first[1] \in ReadAt(node) /\ Differs(r, first[1]) /\ alias_of[r] = NoTensor
<1>1. LastNode \in Nat
  BY GraphFacts
<1>2. Span = ReadAt(node)
  BY <1>1 DEF Span, AtGelu, ReadAt
<1>3. \A k \in ReadAt(node) : k \in 1 .. LastNode /\ k \in Nat
  BY <1>1, ReadAtFacts
<1>4. ASSUME Pending = {}, NEW k \in ReadAt(node), NEW v, Differs(v, k)
      PROVE  alt_producer[v] >= 0
  <2>1. k \in 1 .. LastNode /\ v \in Ins(graph, k) /\ v \in Values /\ v \notin graph.const
        /\ IsMap(graph, v) /\ Layout(v) # effective[k]
    BY <1>3, <1>4, GraphFacts DEF Differs
  <2>2. ~Renamed(v)
    BY <2>1, RenamedFacts
  <2>3. Root(v) = v
    BY <2>1, <2>2, AliasFacts, RootFacts
  <2>4. PICK s \in Slots(graph, k) : v = In(k, s)
    BY <2>1, SlotFacts
  <2>5. <<k, s>> \in UNION {{n} \X Slots(graph, n) : n \in Span}
    BY <1>2, <2>4
  <2>6. ~NeedsConvert(k, v)
    <3>1. <<k, s>>[1] = k /\ <<k, s>>[2] = s
      OBVIOUS
    <3> QED
      BY <1>4, <2>4, <2>5, <3>1 DEF Pending
  <2> QED
    BY <2>1, <2>3, <2>6 DEF NeedsConvert, IsConst
<1>5. ASSUME Pending # {}
      PROVE  FirstPending \in Pending
  <2> DEFINE P == Pending
             N == {u[1] : u \in P}
             M(n) == {u[2] : u \in {w \in P : w[1] = n}}
  <2>1. ASSUME NEW u \in P
        PROVE  u = <<u[1], u[2]>> /\ u[1] \in Nat /\ u[2] \in Nat
    <3>1. PICK n \in Span : u \in {n} \X Slots(graph, n)
      BY DEF Pending
    <3>2. Slots(graph, n) \subseteq Nat /\ n \in Nat
      BY <1>2, <1>3, SlotFacts
    <3> QED
      BY <3>1, <3>2
  <2>2. N \subseteq Nat /\ N # {}
    BY <1>5, <2>1
  <2>3. PICK n \in N : \A y \in N : n <= y
    <3> HIDE DEF N
    <3> QED
      BY <2>2, LeastOf
  <2>4. M(n) \subseteq Nat /\ M(n) # {}
    BY <2>1
  <2>5. PICK s \in M(n) : \A y \in M(n) : s <= y
    <3> HIDE DEF M
    <3> QED
      BY <2>4, LeastOf
  <2>6. PICK u \in P : u[1] = n /\ u[2] = s
    OBVIOUS
  <2>7. \A v \in P : u[1] < v[1] \/ (u[1] = v[1] /\ u[2] <= v[2])
    <3> TAKE v \in P
    <3>1. n <= v[1] /\ (v[1] = n => s <= v[2])
      BY <2>3, <2>5
    <3>2. n \in Nat /\ v[1] \in Nat
      BY <2>1, <2>2
    <3> QED
      BY <2>6, <3>1, <3>2
  <2> HIDE DEF P
  <2> QED
    BY <2>6, <2>7 DEF FirstPending, P
<1>6. ASSUME NEW u \in Pending
      PROVE  LET r == Root(In(u[1], u[2]))
             IN  u[1] \in ReadAt(node) /\ Differs(r, u[1]) /\ alias_of[r] = NoTensor
  <2> DEFINE k == u[1]
             t == In(u[1], u[2])
             r == Root(t)
  <2>1. k \in ReadAt(node) /\ k \in 1 .. LastNode /\ t \in Ins(graph, k) /\ t \in Values
    <3>1. PICK n \in Span : u \in {n} \X Slots(graph, n)
      BY DEF Pending
    <3>2. n \in 1 .. LastNode /\ u[1] = n /\ u[2] \in Slots(graph, n) /\ n \in ReadAt(node)
      BY <1>2, <1>3, <3>1
    <3> QED
      BY <3>2, SlotFacts, GraphFacts
  <2>2. r \notin graph.const /\ Layout(r) # effective[k] /\ IsMap(graph, t)
    BY DEF Pending, NeedsConvert, IsConst
  <2> HIDE DEF t, k
  <2>3. alias_of[t] = NoTensor
    <3>1. ASSUME alias_of[t] # NoTensor PROVE FALSE
      <4>1. Layout(r) = "NCHW" /\ Renamed(t)
        BY <2>1, <3>1, RootFacts, AliasFacts
      <4>2. effective[k] = "NCHW"
        BY <2>1, <2>2, <4>1, RenamedFacts
      <4> QED
        BY <2>2, <4>1, <4>2
    <3> QED
      BY <3>1
  <2>4. r = t
    BY <2>1, <2>3, RootFacts
  <2> QED
    BY <2>1, <2>2, <2>3, <2>4 DEF Differs, k, t
<1> QED
  BY <1>4, <1>5, <1>6

-----------------------------------------------------------------------------
(* The first pass.                                                         *)

NamesHold(n) ==
  /\ Named
  /\ \A h \in Heads : h < n /\ Renames(h) => alias_of[OutOf(h)] = In(h, 1)

(* What has been lowered: the results behind have a producer, and what     *)
(* their operations and the caller take in the other layout has an         *)
(* alternate slot.  A value is converted between its producer and a        *)
(* reader of its primary slot, the conversion itself.                      *)
First ==
  /\ NamesHold(node) /\ Len(ops) \in Nat
  /\ producer \in [Values -> -1 .. Len(ops) + node]
  /\ last_use \in [Values -> -1 .. Len(ops)]
  /\ alt_producer \in [Values -> Int] /\ alt_last_use \in [Values -> Int]
  /\ \A v \in Values : /\ -1 <= alt_producer[v] /\ alt_producer[v] < Len(ops)
                       /\ alt_producer[v] <= last_use[v]
  /\ \A h \in Heads : h < node /\ ~Renames(h) =>
       /\ 0 <= producer[Result(h)] /\ producer[Result(h)] < Len(ops)
       /\ alt_producer[Result(h)] >= 0 => producer[Result(h)] <= alt_producer[Result(h)]
       /\ \A k \in ReadAt(h) : \A v : Differs(v, k) => alt_producer[v] >= 0
  /\ \A h \in Heads : node <= h /\ h <= LastNode /\ ~Renames(h) =>
       alt_producer[Result(h)] = -1
  /\ \A v \in exported : Exports(v) => alt_producer[v] >= 0

(* A conversion of a value that no operation ahead writes.                 *)
LEMMA ConvertFirst ==
  ASSUME graph \in Graphs, LayoutsInv, node \in Heads, First,
         UNCHANGED <<graph, wasm, effective, node, alias_of>>,
         NEW r \in Values, NEW n, Convert(r, n),
         \A h \in Heads : node <= h /\ h <= LastNode /\ ~Renames(h) => r # Result(h),
         exported' \subseteq exported \cup {r}
  PROVE  First'
<1> DEFINE P == Len(ops)
<1>1. /\ Len(ops') = P + 1 /\ P \in Nat
      /\ alt_producer' = [alt_producer EXCEPT ![r] = P]
      /\ last_use' = [last_use EXCEPT ![r] = Later(@, P)]
      /\ producer' = producer /\ alt_last_use' = alt_last_use
  <2>1. Len(Append(ops, Operation("convert", n, 0,
             {[value |-> r, offset |-> offset[r], want |-> Layout(r)]}, r, 1))) = P + 1
    BY DEF First
  <2> QED
    BY <2>1 DEF First, Convert, Physical
<1>2. node \in Nat /\ LastNode \in Nat
  BY HeadsFacts, GraphFacts
<1> HIDE DEF P
<1>3. /\ LastNode' = LastNode /\ Values' = Values /\ Heads' = Heads
      /\ \A k : /\ Renames(k)' = Renames(k) /\ OutOf(k)' = OutOf(k)
                /\ In(k, 1)' = In(k, 1) /\ Result(k)' = Result(k)
                /\ ReadAt(k)' = ReadAt(k)
      /\ \A v, k : Differs(v, k)' = Differs(v, k)
      /\ \A v : Exports(v)' = Exports(v)
  BY SameNodes, SameHeads
<1>4. /\ producer \in [Values -> -1 .. P + node] /\ last_use \in [Values -> -1 .. P]
      /\ alt_producer \in [Values -> Int] /\ alt_last_use \in [Values -> Int]
      /\ \A v \in Values : /\ -1 <= alt_producer[v] /\ alt_producer[v] < P
                           /\ alt_producer[v] <= last_use[v]
  BY DEF First, P
<1>5. \A v \in Values : alt_producer'[v] = IF v = r THEN P ELSE alt_producer[v]
  BY <1>1, <1>4
<1>6. \A v \in Values : last_use'[v] = IF v = r THEN Later(last_use[r], P) ELSE last_use[v]
  BY <1>1, <1>4
<1>7. Later(last_use[r], P) \in -1 .. P + 1 /\ P <= Later(last_use[r], P)
  <2>1. last_use[r] \in -1 .. P
    BY <1>4
  <2> QED
    BY <1>1, <2>1 DEF Later
<1>8. producer' \in [Values -> -1 .. P + 1 + node]
  <2>1. -1 .. P + node \subseteq -1 .. P + 1 + node
    BY <1>1, <1>2
  <2> QED
    BY <1>1, <1>4, <2>1
<1>9. last_use' \in [Values -> -1 .. P + 1] /\ alt_producer' \in [Values -> Int]
  <2>1. -1 .. P \subseteq -1 .. P + 1 /\ P \in Int
    BY <1>1
  <2> QED
    BY <1>1, <1>4, <1>7, <2>1
<1>10. ASSUME NEW v \in Values
       PROVE  -1 <= alt_producer'[v] /\ alt_producer'[v] < P + 1 /\ alt_producer'[v] <= last_use'[v]
              /\ (alt_producer[v] >= 0 => alt_producer'[v] >= 0)
  <2>1. CASE v = r
    BY <1>1, <1>5, <1>6, <1>7, <2>1
  <2>2. CASE v # r
    <3>1. alt_producer[v] \in Int
      BY <1>4
    <3> QED
      BY <1>1, <1>4, <1>5, <1>6, <2>2, <3>1
  <2> QED
    BY <2>1, <2>2
<1>11. ASSUME NEW h \in Heads, h < node, ~Renames(h)
       PROVE  /\ 0 <= producer[Result(h)] /\ producer[Result(h)] < P + 1
              /\ alt_producer'[Result(h)] >= 0 => producer[Result(h)] <= alt_producer'[Result(h)]
              /\ \A k \in ReadAt(h) : \A v : Differs(v, k) => alt_producer'[v] >= 0
  <2> DEFINE v == Result(h)
  <2>1. h \in 1 .. LastNode
    BY <1>2, <1>11, HeadsFacts
  <2>2. v \in Values
    <3>1. Last(h) \in 1 .. LastNode
      BY <1>2, <2>1, SpanFacts
    <3> QED
      BY <3>1, GraphFacts DEF Result
  <2>3. 0 <= producer[v] /\ producer[v] < P /\ (alt_producer[v] >= 0 => producer[v] <= alt_producer[v])
        /\ \A k \in ReadAt(h) : \A u : Differs(u, k) => alt_producer[u] >= 0
    BY <1>11 DEF First, P
  <2>4. producer[v] \in Int
    BY <1>4, <2>2
  <2> HIDE DEF v
  <2>5. 0 <= producer[v] /\ producer[v] < P + 1
        /\ (alt_producer'[v] >= 0 => producer[v] <= alt_producer'[v])
    BY <1>1, <1>5, <2>2, <2>3, <2>4
  <2>6. ASSUME NEW k \in ReadAt(h), NEW u, Differs(u, k) PROVE alt_producer'[u] >= 0
    <3>1. u \in Values
      BY <2>1, <2>6, ReadAtFacts, GraphFacts DEF Differs
    <3> QED
      BY <1>10, <2>3, <2>6, <3>1
  <2> QED
    BY <2>5, <2>6 DEF v
<1>12. ASSUME NEW h \in Heads, node <= h, h <= LastNode, ~Renames(h)
       PROVE  alt_producer'[Result(h)] = -1
  <2>1. Result(h) # r /\ alt_producer[Result(h)] = -1
    BY <1>12 DEF First
  <2> QED
    BY <1>1, <2>1
<1>13. ASSUME NEW v \in exported', Exports(v) PROVE alt_producer'[v] >= 0
  <2>1. CASE v = r
    BY <1>1, <1>4, <2>1
  <2>2. CASE v # r
    <3>1. v \in exported /\ alt_producer[v] >= 0
      BY <1>13, <2>2 DEF First
    <3> QED
      BY <1>1, <2>2, <3>1
  <2> QED
    BY <2>1, <2>2
<1>14. NamesHold(node)'
  <2>1. Named'
    BY <1>3 DEF First, NamesHold, Named
  <2> QED
    BY <1>3, <2>1 DEF First, NamesHold
<1>15. Len(ops') \in Nat /\ alt_last_use' \in [Values -> Int] /\ node' = node
  BY <1>1, <1>4
<1> QED
  BY <1>1, <1>3, <1>8, <1>9, <1>10, <1>11, <1>12, <1>13, <1>14, <1>15 DEF First

LEMMA UsesFacts ==
  ASSUME NEW P \in Nat, P = Len(ops), last_use \in [Values -> -1 .. P],
         alt_last_use \in [Values -> Int], NEW S, NEW T, UpdateUses(S, T)
  PROVE  /\ last_use' \in [Values -> -1 .. P + 1] /\ alt_last_use' \in [Values -> Int]
         /\ \A v \in Values : last_use[v] <= last_use'[v]
<1>1. \A v \in Values : last_use[v] \in -1 .. P /\ alt_last_use[v] \in Int
  OBVIOUS
<1>2. /\ last_use' = [v \in Values |-> IF v \in S THEN Later(last_use[v], P) ELSE last_use[v]]
      /\ alt_last_use' = [v \in Values |->
                            IF v \in T THEN Later(alt_last_use[v], P) ELSE alt_last_use[v]]
  BY DEF UpdateUses, Physical
<1>3. \A x \in -1 .. P : Later(x, P) \in -1 .. P + 1 /\ x <= Later(x, P) /\ x \in -1 .. P + 1
                         /\ x <= x
  BY DEF Later
<1>4. \A x \in Int : Later(x, P) \in Int
  BY DEF Later
<1> QED
  BY <1>1, <1>2, <1>3, <1>4

(* An operation for the nodes from this one to the last that it takes.     *)
LEMMA EmitFirst ==
  ASSUME graph \in Graphs, LayoutsInv, node \in Heads, First,
         node <= LastNode, ~Renames(node),
         \A k \in ReadAt(node) : \A v : Differs(v, k) => alt_producer[v] >= 0,
         UNCHANGED <<graph, wasm, effective, alias_of, exported, alt_producer>>,
         node' = Follow(node), NEW op, ops' = Append(ops, op), NEW S, NEW T, UpdateUses(S, T),
         producer' \in [Values -> -1 .. Len(ops) + node],
         producer'[Result(node)] = Len(ops),
         \A t \in Values : (\A m \in node .. Last(node) : t # OutOf(m)) =>
           producer'[t] = producer[t]
  PROVE  First' /\ node' \in Heads'
<1> DEFINE P == Len(ops)
<1>1. Len(ops') = P + 1 /\ P \in Nat
  <2>1. Len(Append(ops, op)) = P + 1
    BY DEF First
  <2> QED
    BY <2>1 DEF First
<1>2. node \in Nat /\ node >= 1 /\ LastNode \in Nat
  BY HeadsFacts, GraphFacts
<1>3. /\ node \in 1 .. LastNode /\ Follow(node) \in Heads /\ Follow(node) > node
      /\ \A h \in Heads : h < Follow(node) => h = node \/ h < node
      /\ \A h \in Heads : h < node => Last(h) < node
  BY HeadsBelow
<1>4. /\ LastNode' = LastNode /\ Values' = Values /\ Heads' = Heads
      /\ \A k : /\ Renames(k)' = Renames(k) /\ OutOf(k)' = OutOf(k)
                /\ In(k, 1)' = In(k, 1) /\ Result(k)' = Result(k)
                /\ ReadAt(k)' = ReadAt(k)
      /\ \A v, k : Differs(v, k)' = Differs(v, k)
      /\ \A v : Exports(v)' = Exports(v)
  BY SameNodes, SameHeads
<1>5. /\ producer \in [Values -> -1 .. P + node] /\ last_use \in [Values -> -1 .. P]
      /\ alt_producer \in [Values -> Int] /\ alt_last_use \in [Values -> Int]
      /\ \A v \in Values : /\ -1 <= alt_producer[v] /\ alt_producer[v] < P
                           /\ alt_producer[v] <= last_use[v]
  BY DEF First
<1>6. /\ last_use' \in [Values -> -1 .. P + 1] /\ alt_last_use' \in [Values -> Int]
      /\ \A v \in Values : last_use[v] <= last_use'[v]
  <2>1. P = Len(ops)
    OBVIOUS
  <2> HIDE DEF P
  <2> QED
    BY <1>1, <1>5, <2>1, UsesFacts
<1>7. \A h \in Heads : h <= LastNode =>
         Last(h) \in 1 .. LastNode /\ Result(h) \in Values /\ h \in 1 .. LastNode
  <2> TAKE h \in Heads
  <2> HAVE h <= LastNode
  <2>1. h \in 1 .. LastNode
    BY HeadsFacts
  <2>2. Last(h) \in 1 .. LastNode
    BY <1>2, <2>1, SpanFacts
  <2> QED
    BY <2>1, <2>2, GraphFacts DEF Result
<1>8. node' \in Nat /\ node' > node /\ node' \in Heads
  <2>1. node' = Follow(node)
    OBVIOUS
  <2>2. Follow(node) \in 1 .. LastNode + 1
    BY <1>3, HeadsFacts
  <2> QED
    BY <1>2, <1>3, <2>1, <2>2
<1> HIDE DEF P
<1>9. producer' \in [Values -> -1 .. P + 1 + node']
  <2>1. -1 .. P + node \subseteq -1 .. P + 1 + node'
    BY <1>1, <1>2, <1>8
  <2> QED
    BY <2>1 DEF P
<1>10. ASSUME NEW v \in Values
       PROVE  -1 <= alt_producer[v] /\ alt_producer[v] < P + 1 /\ alt_producer[v] <= last_use'[v]
  <2>1. last_use[v] \in Int /\ last_use'[v] \in Int /\ alt_producer[v] \in Int
    BY <1>5, <1>6
  <2>2. -1 <= alt_producer[v] /\ alt_producer[v] < P /\ alt_producer[v] <= last_use[v]
        /\ last_use[v] <= last_use'[v]
    BY <1>5, <1>6
  <2> QED
    BY <1>1, <2>1, <2>2
<1>11. ASSUME NEW h \in Heads, h < node', ~Renames(h)
       PROVE  /\ 0 <= producer'[Result(h)] /\ producer'[Result(h)] < P + 1
              /\ alt_producer[Result(h)] >= 0 => producer'[Result(h)] <= alt_producer[Result(h)]
              /\ \A k \in ReadAt(h) : \A v : Differs(v, k) => alt_producer[v] >= 0
  <2>1. CASE h = node
    <3>1. producer'[Result(h)] = P
      BY <2>1 DEF P
    <3>2. alt_producer[Result(h)] = -1
      BY <1>2, <2>1, <1>11 DEF First
    <3> QED
      BY <1>1, <2>1, <3>1, <3>2
  <2>2. CASE h < node
    <3>1. /\ 0 <= producer[Result(h)] /\ producer[Result(h)] < P
          /\ alt_producer[Result(h)] >= 0 => producer[Result(h)] <= alt_producer[Result(h)]
          /\ \A k \in ReadAt(h) : \A v : Differs(v, k) => alt_producer[v] >= 0
      BY <1>11, <2>2 DEF First, P
    <3>2. h <= LastNode /\ Last(h) < node
      BY <1>2, <1>3, <2>2, HeadsFacts
    <3>3. ASSUME NEW m \in node .. Last(node) PROVE Result(h) # OutOf(m)
      <4>1. Last(node) \in 1 .. LastNode
        BY <1>3, <1>7
      <4>2. m \in 1 .. LastNode /\ m # Last(h) /\ Last(h) \in 1 .. LastNode
        BY <1>2, <1>7, <3>2, <4>1
      <4> QED
        BY <4>2, GraphFacts DEF Result
    <3>4. producer'[Result(h)] = producer[Result(h)] /\ producer[Result(h)] \in Int
      BY <1>5, <1>7, <3>2, <3>3
    <3> QED
      BY <1>1, <3>1, <3>4
  <2> QED
    BY <1>3, <1>11, <2>1, <2>2
<1>12. ASSUME NEW h \in Heads, node' <= h, h <= LastNode, ~Renames(h)
       PROVE  alt_producer[Result(h)] = -1
  <2>1. node <= h
    BY <1>2, <1>7, <1>8, <1>12
  <2> QED
    BY <1>12, <2>1 DEF First
<1>13. NamesHold(node)'
  <2>1. Named'
    BY <1>4 DEF First, NamesHold, Named
  <2>2. \A h \in Heads : h < node' /\ Renames(h) => alias_of[OutOf(h)] = In(h, 1)
    BY <1>3 DEF First, NamesHold
  <2> QED
    BY <1>4, <2>1, <2>2 DEF NamesHold
<1>14. \A v \in exported : Exports(v) => alt_producer[v] >= 0
  BY DEF First
<1>15. alt_producer' = alt_producer /\ exported' = exported /\ Len(ops') \in Nat
  BY <1>1
<1>16. First'
  BY <1>1, <1>4, <1>5, <1>6, <1>9, <1>10, <1>11, <1>12, <1>13, <1>14, <1>15 DEF First
<1> QED
  BY <1>4, <1>8, <1>16

(* A reshape gives its operand one more name.                              *)
LEMMA AliasFirst ==
  ASSUME graph \in Graphs, LayoutsInv, node \in Heads, First,
         UNCHANGED <<graph, wasm, effective>>, LowerAlias
  PROVE  First' /\ node' \in Heads'
<1>1. /\ node <= LastNode /\ Renames(node)
      /\ alias_of' = [alias_of EXCEPT ![OutOf(node)] = In(node, 1)]
      /\ producer' = [producer EXCEPT ![OutOf(node)] = node - 1]
      /\ node' = node + 1
      /\ exported' = exported /\ ops' = ops /\ last_use' = last_use
      /\ alt_producer' = alt_producer /\ alt_last_use' = alt_last_use
  BY DEF LowerAlias
<1>2. node \in Nat /\ node >= 1 /\ LastNode \in Nat /\ node \in 1 .. LastNode
  BY <1>1, HeadsFacts, GraphFacts
<1>3. /\ Follow(node) \in Heads
      /\ \A h \in Heads : h < Follow(node) => h = node \/ h < node
      /\ \A h \in Heads : h < node => Last(h) < node
  BY <1>1, HeadsBelow
<1>4. Follow(node) = node + 1
  BY <1>1, <1>2, SpanFacts DEF Follow
<1>5. /\ LastNode' = LastNode /\ Values' = Values /\ Heads' = Heads
      /\ \A k : /\ Renames(k)' = Renames(k) /\ OutOf(k)' = OutOf(k)
                /\ In(k, 1)' = In(k, 1) /\ Result(k)' = Result(k)
                /\ ReadAt(k)' = ReadAt(k)
      /\ \A v, k : Differs(v, k)' = Differs(v, k)
      /\ \A v : Exports(v)' = Exports(v)
  BY SameNodes, SameHeads
<1>6. OutOf(node) \in Values /\ In(node, 1) \in Nat
      /\ \A m \in 1 .. LastNode : OutOf(m) = OutOf(node) => m = node
  BY <1>2, GraphFacts
<1>7. /\ Len(ops) \in Nat
      /\ producer \in [Values -> -1 .. Len(ops) + node]
      /\ last_use \in [Values -> -1 .. Len(ops)]
      /\ alt_producer \in [Values -> Int] /\ alt_last_use \in [Values -> Int]
      /\ \A v \in Values : /\ -1 <= alt_producer[v] /\ alt_producer[v] < Len(ops)
                           /\ alt_producer[v] <= last_use[v]
  BY DEF First
<1>8. producer' \in [Values -> -1 .. Len(ops) + node']
  <2>1. -1 .. Len(ops) + node \subseteq -1 .. Len(ops) + (node + 1) /\ node - 1 \in -1 .. Len(ops) + (node + 1)
    BY <1>2, <1>7
  <2> QED
    BY <1>1, <1>7, <2>1
<1>9. ASSUME NEW h \in Heads, h < node', ~Renames(h)
      PROVE  /\ 0 <= producer'[Result(h)] /\ producer'[Result(h)] < Len(ops)
             /\ alt_producer[Result(h)] >= 0 => producer'[Result(h)] <= alt_producer[Result(h)]
             /\ \A k \in ReadAt(h) : \A v : Differs(v, k) => alt_producer[v] >= 0
  <2>1. h < node
    BY <1>1, <1>3, <1>4, <1>9
  <2>2. h \in 1 .. LastNode /\ Last(h) < node
    BY <1>2, <1>3, <2>1, HeadsFacts
  <2>3. Last(h) \in 1 .. LastNode
    BY <1>2, <2>2, SpanFacts
  <2>4. Result(h) \in Values /\ Result(h) # OutOf(node)
    BY <1>2, <1>6, <2>2, <2>3, GraphFacts DEF Result
  <2>5. producer'[Result(h)] = producer[Result(h)]
    BY <1>1, <1>7, <2>4
  <2> QED
    BY <1>9, <2>1, <2>5 DEF First
<1>10. ASSUME NEW h \in Heads, node' <= h, h <= LastNode, ~Renames(h)
       PROVE  alt_producer[Result(h)] = -1
  <2>1. node <= h
    <3>1. h \in Nat
      BY HeadsFacts
    <3> QED
      BY <1>1, <1>2, <1>10, <3>1
  <2> QED
    BY <1>10, <2>1 DEF First
<1>11. NamesHold(node)'
  <2>1. alias_of \in [Values -> Nat]
    BY DEF First, NamesHold, Named
  <2>2. \A t \in Values : alias_of'[t] = IF t = OutOf(node) THEN In(node, 1) ELSE alias_of[t]
    BY <1>1, <2>1
  <2>3. alias_of' \in [Values -> Nat]
    BY <1>1, <1>6, <2>1
  <2>4. ASSUME NEW t \in Values, alias_of'[t] # NoTensor
        PROVE  \E n \in 1 .. LastNode : Renames(n) /\ t = OutOf(n) /\ alias_of'[t] = In(n, 1)
    <3>1. CASE t = OutOf(node)
      BY <1>1, <1>2, <2>2, <3>1
    <3>2. CASE t # OutOf(node)
      BY <2>2, <2>4, <3>2 DEF First, NamesHold, Named
    <3> QED
      BY <3>1, <3>2
  <2>5. Named'
    BY <1>5, <2>3, <2>4 DEF Named
  <2>6. ASSUME NEW h \in Heads, h < node', Renames(h)
        PROVE  alias_of'[OutOf(h)] = In(h, 1)
    <3>1. CASE h = node
      BY <1>6, <2>2, <3>1
    <3>2. CASE h # node
      <4>1. h < node
        BY <1>1, <1>3, <1>4, <2>6, <3>2
      <4>2. h \in 1 .. LastNode
        BY <1>2, <4>1, HeadsFacts
      <4>3. OutOf(h) \in Values /\ OutOf(h) # OutOf(node)
        BY <1>6, <3>2, <4>2, GraphFacts
      <4> QED
        BY <2>2, <2>6, <4>1, <4>3 DEF First, NamesHold
    <3> QED
      BY <3>1, <3>2
  <2> QED
    BY <1>5, <2>5, <2>6 DEF NamesHold
<1>12. \A v \in exported : Exports(v) => alt_producer[v] >= 0
  BY DEF First
<1>13. First'
  BY <1>1, <1>5, <1>7, <1>8, <1>9, <1>10, <1>11, <1>12 DEF First
<1> QED
  BY <1>1, <1>3, <1>4, <1>5, <1>13

(* A value read at a node is none that the nodes from there on write.      *)
LEMMA ReadIsOlder ==
  ASSUME graph \in Graphs, node \in Heads, node <= LastNode,
         NEW m \in ReadAt(node), NEW r \in Ins(graph, m), r \notin graph.const,
         NEW h \in Heads, node <= h, h <= LastNode
  PROVE  r # Result(h)
<1>1. node \in 1 .. LastNode /\ h \in 1 .. LastNode /\ LastNode \in Nat
  BY HeadsFacts, GraphFacts
<1>2. m \in 1 .. LastNode /\ m <= Last(node) /\ Last(node) <= Last(h)
  BY <1>1, ReadAtFacts, HeadsBelow
<1>3. Last(h) \in 1 .. LastNode /\ Last(node) \in 1 .. LastNode
  BY <1>1, SpanFacts
<1>4. CASE r = graph.input
  BY <1>3, <1>4, GraphFacts DEF Result
<1>5. CASE r # graph.input
  <2>1. PICK j \in 1 .. m - 1 : OutOf(j) = r
    BY <1>2, <1>5, GraphFacts
  <2>2. j \in 1 .. LastNode /\ j # Last(h)
    BY <1>1, <1>2, <1>3, <2>1
  <2> QED
    BY <1>3, <2>1, <2>2, GraphFacts DEF Result
<1> QED
  BY <1>4, <1>5

(* Which nodes an operation takes.                                         *)
LEMMA TakenNodes ==
  ASSUME graph \in Graphs, LayoutsInv, Named, node \in 1 .. LastNode
  PROVE  /\ AtGelu <=> GeluAt(graph, node)
         /\ AtGelu => /\ ~Renames(node) /\ Follow(node) = node + 5
                      /\ Last(node) = node + 4 /\ Span = node .. node + 4
         /\ ~AtGelu => Span = {node}
         /\ ~AtGelu /\ ~Folds(node) => Follow(node) = node + 1 /\ Last(node) = node
         /\ ~AtGelu /\ Folds(node) =>
              LET f == Fold(node)
              IN  /\ Folded(node, f) /\ Follow(node) = node + f.span
                  /\ Last(node) = node + f.span - 1 /\ Result(node) = f.out
<1>1. node \in Nat /\ LastNode \in Nat /\ node <= LastNode
  BY GraphFacts
<1>2. AtGelu <=> GeluAt(graph, node)
  BY <1>1 DEF AtGelu
<1>3. ASSUME AtGelu
      PROVE  /\ ~Renames(node) /\ Follow(node) = node + 5
             /\ Last(node) = node + 4 /\ Span = node .. node + 4
  <2>1. SpanOf(node) = 5 /\ ~Renames(node)
    BY <1>2, <1>3, SpanFacts DEF SpanOf
  <2>2. node + 5 - 1 = node + 4
    BY <1>1
  <2> QED
    BY <1>3, <2>1, <2>2 DEF Follow, Last, Span
<1>4. ASSUME ~AtGelu, ~Folds(node) PROVE Follow(node) = node + 1 /\ Last(node) = node
  <2>1. SpanOf(node) = 1
    BY <1>2, <1>4, FoldFacts DEF SpanOf, Bare
  <2>2. node + 1 - 1 = node
    BY <1>1
  <2> QED
    BY <2>1, <2>2 DEF Follow, Last
<1>5. ASSUME ~AtGelu, Folds(node)
      PROVE  LET f == Fold(node)
             IN  /\ Folded(node, f) /\ Follow(node) = node + f.span
                 /\ Last(node) = node + f.span - 1 /\ Result(node) = f.out
  <2>1. Fold(node) = FoldOf(node)
    BY FoldIs
  <2>2. SpanOf(node) = FoldOf(node).span
    BY <1>2, <1>5 DEF SpanOf
  <2>3. Folded(node, FoldOf(node))
    BY FoldFacts
  <2> QED
    BY <2>1, <2>2, <2>3 DEF Follow, Last, Result, Folded
<1> QED
  BY <1>2, <1>3, <1>4, <1>5 DEF Span

(* The first pass, step by step.                                           *)
LEMMA FirstStep ==
  ASSUME graph \in Graphs, LayoutsInv, node \in Heads, First,
         Lower, ~LowerFails
  PROVE  First' /\ node' \in Heads'
<1>1. LastNode \in Nat /\ node \in 1 .. LastNode + 1 /\ Len(ops) \in Nat /\ Named
  BY GraphFacts, HeadsFacts DEF First, NamesHold
<1>2. node <= LastNode => node \in 1 .. LastNode /\ node \in Nat
  BY <1>1
<1>3. \A v \in Values : alt_producer[v] \in Int
  BY DEF First
<1>4. ASSUME node \in 1 .. LastNode, Pending = {}
      PROVE  \A k \in ReadAt(node) : \A v : Differs(v, k) => alt_producer[v] >= 0
  BY <1>1, <1>3, <1>4, PendingFacts
<1>5. CASE LowerAlias
  <2>1. UNCHANGED <<graph, wasm, effective>>
    BY <1>5 DEF LowerAlias, model
  <2> QED
    BY <1>5, <2>1, AliasFirst
<1>6. CASE LowerConvert
  <2> DEFINE first == FirstPending
             r == Root(In(first[1], first[2]))
  <2>1. /\ node <= LastNode /\ Pending # {} /\ Convert(r, first[1])
        /\ UNCHANGED <<graph, wasm, effective, node, alias_of>> /\ exported' = exported
    BY <1>6 DEF LowerConvert, model, places
  <2>2. first[1] \in ReadAt(node) /\ Differs(r, first[1])
    BY <1>1, <1>2, <1>3, <2>1, PendingFacts
  <2> HIDE DEF first, r
  <2>3. r \in Values /\ r \in Ins(graph, first[1]) /\ r \notin graph.const
    BY <1>2, <2>1, <2>2, ReadAtFacts, GraphFacts DEF Differs
  <2>4. \A h \in Heads : node <= h /\ h <= LastNode /\ ~Renames(h) => r # Result(h)
    BY <2>1, <2>2, <2>3, ReadIsOlder
  <2>5. First'
    BY <2>1, <2>3, <2>4, ConvertFirst
  <2>6. Heads' = Heads
    BY <2>1, SameHeads
  <2> QED
    BY <2>1, <2>5, <2>6
<1>7. CASE LowerOutput
  <2>1. PICK t \in graph.outputs \ exported :
          /\ exported' = exported \cup {t}
          /\ IF t \notin graph.neutral /\ Layout(t) = "NHWC"
               THEN Convert(t, Producer(graph, t)) ELSE UNCHANGED <<ops, uses>>
    BY <1>7 DEF LowerOutput
  <2>2. /\ node > LastNode /\ UNCHANGED <<graph, wasm, effective, node, alias_of>>
    BY <1>7 DEF LowerOutput, model, places
  <2>3. Heads' = Heads /\ (\A v : Exports(v)' = Exports(v))
    BY <2>2, SameHeads
  <2>4. CASE t \notin graph.neutral /\ Layout(t) = "NHWC"
    <3>1. t \in Values
      BY <2>1, OutputFacts
    <3>2. \A h \in Heads : ~(node <= h /\ h <= LastNode)
      BY <1>1, <2>2, HeadsFacts
    <3>3. First'
      BY <2>1, <2>2, <2>4, <3>1, <3>2, ConvertFirst
    <3> QED
      BY <2>2, <2>3, <3>3
  <2>5. CASE ~(t \notin graph.neutral /\ Layout(t) = "NHWC")
    <3>1. UNCHANGED <<ops, producer, last_use, alt_producer, alt_last_use>>
      BY <2>1, <2>5 DEF uses
    <3>2. \A v \in exported' : Exports(v) => alt_producer[v] >= 0
      BY <2>1, <2>5 DEF First, Exports
    <3>3. /\ LastNode' = LastNode /\ Values' = Values
          /\ \A k : /\ Renames(k)' = Renames(k) /\ OutOf(k)' = OutOf(k)
                    /\ In(k, 1)' = In(k, 1) /\ Result(k)' = Result(k)
                    /\ ReadAt(k)' = ReadAt(k)
          /\ \A v, k : Differs(v, k)' = Differs(v, k)
      BY <2>2, SameNodes, SameHeads
    <3>4. NamesHold(node)'
      <4>1. Named'
        BY <2>2, <3>3 DEF First, NamesHold, Named
      <4> QED
        BY <2>2, <2>3, <3>3, <4>1 DEF First, NamesHold
    <3>5. First'
      BY <2>2, <2>3, <3>1, <3>2, <3>3, <3>4 DEF First
    <3> QED
      BY <2>2, <2>3, <3>5
  <2> QED
    BY <2>4, <2>5
<1>8. CASE LowerGelu
  <2>1. /\ AtGelu /\ Pending = {} /\ node <= LastNode
        /\ ops' = Append(ops, Operation("gelu", node, 5,
                    {Operand(ChainSource(graph, node), effective[node])}, OutOf(node + 4), 0))
        /\ producer' = [producer EXCEPT ![OutOf(node + 4)] = Len(ops)]
        /\ UpdateUses(PrimaryReads(Span), AlternateReads(Span))
        /\ node' = node + 5
        /\ UNCHANGED <<graph, wasm, effective, alias_of, exported, alt_producer>>
    BY <1>8 DEF LowerGelu, AtGelu, model, places, Physical
  <2>2. ~Renames(node) /\ Follow(node) = node + 5 /\ Last(node) = node + 4
        /\ Result(node) = OutOf(node + 4)
    BY <1>1, <1>2, <2>1, TakenNodes DEF Result
  <2>3. node + 4 \in node .. Last(node)
    BY <1>2, <2>1, <2>2
  <2>4. /\ producer' \in [Values -> -1 .. Len(ops) + node]
        /\ producer'[Result(node)] = Len(ops)
        /\ \A t \in Values : (\A m \in node .. Last(node) : t # OutOf(m)) =>
             producer'[t] = producer[t]
    <3>1. producer \in [Values -> -1 .. Len(ops) + node] /\ Result(node) \in Values
      <4>1. Last(node) \in 1 .. LastNode
        BY <1>2, <2>1, SpanFacts
      <4> QED
        BY <4>1, GraphFacts DEF First, Result
    <3>2. Len(ops) \in -1 .. Len(ops) + node
      BY <1>1, <1>2, <2>1
    <3> QED
      BY <2>1, <2>2, <2>3, <3>1, <3>2
  <2>5. \A k \in ReadAt(node) : \A v : Differs(v, k) => alt_producer[v] >= 0
    BY <1>2, <1>4, <2>1
  <2> QED
    BY <2>1, <2>2, <2>4, <2>5, EmitFirst
<1>9. CASE LowerNode
  <2> DEFINE op == IF Op(node) = "conv" THEN ConvOperation(node, 1, {}, OutOf(node))
                   ELSE Operation(Op(node), node, 1, Operands(node), OutOf(node), 0)
  <2>1. /\ ~AtGelu /\ ~Renames(node) /\ Pending = {} /\ node <= LastNode
        /\ ~Folds(node)
        /\ ops' = Append(ops, op)
        /\ producer' = [producer EXCEPT ![OutOf(node)] = Len(ops)]
        /\ UpdateUses(PrimaryReads({node}), AlternateReads({node}))
        /\ node' = node + 1
        /\ UNCHANGED <<graph, wasm, effective, alias_of, exported, alt_producer>>
    BY <1>9 DEF LowerNode, AtNode, model, places, Physical
  <2> HIDE DEF op
  <2>2. Follow(node) = node + 1 /\ Last(node) = node /\ Result(node) = OutOf(node)
    BY <1>1, <1>2, <2>1, TakenNodes DEF Result
  <2>3. node \in node .. Last(node)
    BY <1>2, <2>1, <2>2
  <2>4. /\ producer' \in [Values -> -1 .. Len(ops) + node]
        /\ producer'[Result(node)] = Len(ops)
        /\ \A t \in Values : (\A m \in node .. Last(node) : t # OutOf(m)) =>
             producer'[t] = producer[t]
    <3>1. producer \in [Values -> -1 .. Len(ops) + node] /\ Result(node) \in Values
      BY <1>2, <2>1, <2>2, GraphFacts DEF First
    <3>2. Len(ops) \in -1 .. Len(ops) + node
      BY <1>1, <1>2, <2>1
    <3> QED
      BY <2>1, <2>2, <2>3, <3>1, <3>2
  <2>5. \A k \in ReadAt(node) : \A v : Differs(v, k) => alt_producer[v] >= 0
    BY <1>2, <1>4, <2>1
  <2> QED
    BY <2>1, <2>2, <2>4, <2>5, EmitFirst
<1>10. CASE LowerConv
  <2> DEFINE f == Fold(node)
             between == {OutOf(n) : n \in node .. node + f.span - 2}
             residual == {f.residual} \ {NoTensor}
             op == ConvOperation(node, f.span, {Operand(t, "NHWC") : t \in residual}, f.out)
  <2>1. /\ ~AtGelu /\ ~Renames(node) /\ Pending = {} /\ node <= LastNode
        /\ Folds(node)
        /\ ops' = Append(ops, op)
        /\ producer' = [t \in Values |-> CASE t = f.out -> Len(ops)
                                               [] t \in between -> -1
                                               [] OTHER -> producer[t]]
        /\ UpdateUses(PrimaryReads({node}) \cup residual, AlternateReads({node}))
        /\ node' = node + f.span
        /\ UNCHANGED <<graph, wasm, effective, alias_of, exported, alt_producer>>
    BY <1>10 DEF LowerConv, AtNode, model, places, Physical
  <2>2. /\ Folded(node, f) /\ Follow(node) = node + f.span
        /\ Last(node) = node + f.span - 1 /\ Result(node) = f.out
    BY <1>1, <1>2, <2>1, TakenNodes
  <2> HIDE DEF op, f, residual
  <2>3. /\ f.span \in Nat /\ f.span >= 1 /\ f.out = OutOf(node + f.span - 1)
        /\ node + f.span - 1 \in node .. Last(node)
        /\ node .. node + f.span - 2 \subseteq node .. Last(node)
    BY <1>2, <2>1, <2>2 DEF Folded
  <2>4. /\ producer' \in [Values -> -1 .. Len(ops) + node]
        /\ producer'[Result(node)] = Len(ops)
        /\ \A t \in Values : (\A m \in node .. Last(node) : t # OutOf(m)) =>
             producer'[t] = producer[t]
    <3>1. producer \in [Values -> -1 .. Len(ops) + node] /\ Result(node) \in Values
      <4>1. Last(node) \in 1 .. LastNode
        BY <1>2, <2>1, SpanFacts
      <4> QED
        BY <4>1, GraphFacts DEF First, Result
    <3>2. Len(ops) \in -1 .. Len(ops) + node /\ -1 \in -1 .. Len(ops) + node
      BY <1>1, <1>2, <2>1
    <3>3. \A t \in Values : (\A m \in node .. Last(node) : t # OutOf(m)) =>
             t # f.out /\ t \notin between
      BY <2>3
    <3> HIDE DEF between
    <3>4. \A t \in Values : producer'[t] = IF t = f.out THEN Len(ops)
                                               ELSE IF t \in between THEN -1 ELSE producer[t]
      <4>1. producer' = [t \in Values |-> CASE t = f.out -> Len(ops)
                                               [] t \in between -> -1
                                               [] OTHER -> producer[t]]
        BY <2>1
      <4>2. ASSUME NEW t \in Values
            PROVE  producer'[t] = CASE t = f.out -> Len(ops) [] t \in between -> -1
                                    [] OTHER -> producer[t]
        BY <4>1
      <4>3. f.out \notin between
        <5>1. \A n \in node .. node + f.span - 2 :
                 n \in 1 .. LastNode /\ node + f.span - 1 \in 1 .. LastNode
                 /\ n # node + f.span - 1
          BY <1>1, <1>2, <2>1, <2>3, <2>2 DEF Folded
        <5> QED
          BY <2>3, <5>1, GraphFacts DEF between
      <4> QED
        BY <4>2, <4>3
    <3>5. producer' \in [Values -> -1 .. Len(ops) + node]
      <4>1. \A t \in Values : producer'[t] \in -1 .. Len(ops) + node
        BY <3>1, <3>2, <3>4
      <4>2. producer' = [t \in Values |-> producer'[t]]
        BY <2>1
      <4> QED
        BY <4>1, <4>2
    <3> QED
      BY <2>2, <3>1, <3>3, <3>4, <3>5
  <2>5. \A k \in ReadAt(node) : \A v : Differs(v, k) => alt_producer[v] >= 0
    BY <1>2, <1>4, <2>1
  <2> QED
    BY <2>1, <2>2, <2>4, <2>5, EmitFirst
<1> QED
  BY <1>5, <1>6, <1>7, <1>8, <1>9, <1>10 DEF Lower

-----------------------------------------------------------------------------
(* The plan.                                                               *)

(* Where a value has both slots, both live at the conversion.              *)
Entries == candidates \cup Elements(placed)
Entry(e) ==
  /\ e.alt \in {0, 1} /\ e.bytes \in Nat \ {0}
  /\ Written(e.value) /\ Wanted(e.value) =>
       /\ alt_producer[e.value] \in Int /\ e.first \in Int /\ e.last \in Int
       /\ e.first <= alt_producer[e.value] /\ alt_producer[e.value] <= e.last
Planned ==
  /\ NamesHold(LastNode + 1)
  /\ \A e \in Entries : Entry(e)
  /\ \A v : Written(v) /\ Wanted(v) => \A a \in {0, 1} : \E e \in Entries : e.value = v /\ e.alt = a

(* Behind the last node every value that is both written and wanted in the *)
(* other layout has been converted since it was produced, and has readers. *)
LEMMA Converted ==
  ASSUME graph \in Graphs, LayoutsInv, First, node \in Heads,
         Lowered, NEW v, Written(v), Wanted(v)
  PROVE  /\ v \in Stored /\ alt_producer[v] \in Nat
         /\ v # graph.input => producer[v] \in Int /\ producer[v] <= alt_producer[v]
         /\ alt_producer[v] < Len(ops) /\ alt_producer[v] <= last_use[v]
<1>1. LastNode \in Nat /\ node \in Nat /\ node > LastNode /\ exported = graph.outputs
  BY GraphFacts, HeadsFacts DEF Lowered
<1>2. \A h \in Heads : h <= LastNode => h < node
  <2> TAKE h \in Heads
  <2>1. h \in Nat
    BY <1>1, HeadsFacts
  <2> QED
    BY <1>1, <2>1
<1>3. v \in Values /\ v \notin graph.const /\ ~Renamed(v)
  BY WrittenFacts
<1>4. alias_of[v] = NoTensor
  BY <1>3, AliasFacts DEF First, NamesHold
<1>5. alt_producer[v] >= 0
  <2>1. CASE Exports(v)
    BY <1>1, <2>1 DEF First, Exports
  <2>2. CASE ~Exports(v)
    <3>1. PICK h \in Heads : /\ h <= LastNode /\ ~Renames(h)
                             /\ \E k \in ReadAt(h) : Differs(v, k)
      BY <2>2 DEF Wanted
    <3> QED
      BY <1>2, <3>1 DEF First
  <2> QED
    BY <2>1, <2>2
<1>6. alt_producer[v] \in Int /\ alt_producer[v] < Len(ops) /\ alt_producer[v] <= last_use[v]
      /\ producer[v] \in Int
  BY <1>3 DEF First
<1>7. v # graph.input => producer[v] >= 0 /\ producer[v] <= alt_producer[v]
  <2> HAVE v # graph.input
  <2>1. PICK h \in Heads : h <= LastNode /\ ~Renames(h) /\ v = Result(h)
    BY DEF Written
  <2> QED
    BY <1>2, <1>5, <2>1 DEF First
<1>8. v \in Stored
  BY <1>3, <1>4, <1>6, <1>7 DEF Stored, IsConst, NoTensor
<1> QED
  BY <1>5, <1>6, <1>7, <1>8

LEMMA PlanStarts ==
  ASSUME graph \in Graphs, LayoutsInv, First, node \in Heads,
         EndFirstPass
  PROVE  Planned'
<1>1. /\ Lowered /\ candidates' = Candidates /\ placed' = <<>>
      /\ UNCHANGED <<graph, wasm, effective, node, alias_of, alt_producer>>
  BY DEF EndFirstPass, PlanStart, model, lowering, uses, places
<1>2. LastNode \in Nat /\ node \in 1 .. LastNode + 1 /\ Len(ops) \in Nat
  BY GraphFacts, HeadsFacts DEF First
<1>3. /\ LastNode' = LastNode /\ Values' = Values /\ Heads' = Heads
      /\ \A k : /\ Renames(k)' = Renames(k) /\ OutOf(k)' = OutOf(k)
                /\ In(k, 1)' = In(k, 1)
      /\ \A v : Written(v)' = Written(v) /\ Wanted(v)' = Wanted(v)
  BY <1>1, SameNodes, SameHeads
<1>4. Entries' = Candidates
  BY <1>1 DEF Entries, Elements
<1>5. NamesHold(LastNode + 1)'
  <2>1. Named'
    BY <1>1, <1>3 DEF First, NamesHold, Named
  <2>2. ASSUME NEW h \in Heads, h < LastNode + 1, Renames(h)
        PROVE  alias_of[OutOf(h)] = In(h, 1)
    <3>1. h < node
      <4>1. h \in Nat
        BY HeadsFacts
      <4>2. node > LastNode
        BY <1>1 DEF Lowered
      <4> QED
        BY <1>2, <2>2, <4>1, <4>2
    <3> QED
      BY <2>2, <3>1 DEF First, NamesHold
  <2> QED
    BY <1>1, <1>3, <2>1, <2>2 DEF NamesHold
<1>6. ASSUME NEW t \in Stored
      PROVE  /\ Primary(t).value = t /\ Primary(t).alt = 0
             /\ Primary(t).bytes \in Nat \ {0}
             /\ Written(t) /\ Wanted(t) =>
                  /\ alt_producer[t] \in Int /\ Primary(t).first \in Int /\ Primary(t).last \in Int
                  /\ Primary(t).first <= alt_producer[t] /\ alt_producer[t] <= Primary(t).last
  <2> DEFINE isInput == t = graph.input
             first == IF isInput THEN 0 ELSE producer[t]
             own == IF isInput THEN Len(ops) ELSE last_use[t]
             T == {first, own} \cup
                  {last_use[a] : a \in {b \in Values : alias_of[b] # NoTensor /\ Root(b) = t}}
             B == Len(ops) + node
  <2>1. t \in Values /\ Bytes(t) \in Nat \ {0}
    BY GraphFacts DEF Stored
  <2>2. Primary(t) = [value |-> t, alt |-> 0, bytes |-> Bytes(t), first |-> first,
                          last |-> LastOf(T)]
    BY DEF Primary
  <2>3. B \in Nat /\ first \in -1 .. B /\ own \in -1 .. B /\ \A a \in Values : last_use[a] \in -1 .. B
    <3>1. producer[t] \in -1 .. B /\ \A a \in Values : last_use[a] \in -1 .. Len(ops)
      BY <2>1 DEF First
    <3> QED
      BY <1>2, <2>1, <3>1
  <2> HIDE DEF first, own, B
  <2>4. T \subseteq -1 .. B /\ T # {} /\ first \in T /\ own \in T
    BY <2>3
  <2> HIDE DEF T
  <2>5. LastOf(T) \in T /\ \A y \in T : y <= LastOf(T)
    BY <2>3, <2>4, GreatestUse DEF LastOf
  <2>6. ASSUME Written(t), Wanted(t)
        PROVE  /\ alt_producer[t] \in Int /\ first \in Int /\ LastOf(T) \in Int
               /\ first <= alt_producer[t] /\ alt_producer[t] <= LastOf(T)
    <3>1. /\ alt_producer[t] \in Nat
          /\ t # graph.input => producer[t] \in Int /\ producer[t] <= alt_producer[t]
          /\ alt_producer[t] < Len(ops) /\ alt_producer[t] <= last_use[t]
      BY <1>1, <2>6, Converted
    <3>2. first <= alt_producer[t] /\ alt_producer[t] <= own
      BY <1>2, <3>1 DEF first, own
    <3>3. first \in Int /\ own \in Int /\ LastOf(T) \in Int /\ own <= LastOf(T)
      <4>1. LastOf(T) \in -1 .. B /\ own <= LastOf(T)
        BY <2>4, <2>5
      <4> QED
        BY <2>3, <4>1
    <3> QED
      BY <3>1, <3>2, <3>3
  <2> QED
    BY <2>1, <2>2, <2>6
<1>7. ASSUME NEW t \in Stored, alt_producer[t] >= 0
      PROVE  /\ Alternate(t).value = t /\ Alternate(t).alt = 1
             /\ Alternate(t).bytes \in Nat \ {0}
             /\ /\ alt_producer[t] \in Int /\ Alternate(t).first \in Int /\ Alternate(t).last \in Int
                /\ Alternate(t).first <= alt_producer[t] /\ alt_producer[t] <= Alternate(t).last
  <2>1. t \in Values /\ Bytes(t) \in Nat \ {0}
    BY GraphFacts DEF Stored
  <2>2. Alternate(t) = [value |-> t, alt |-> 1, bytes |-> Bytes(t), first |-> alt_producer[t],
                            last |-> Later(alt_last_use[t], alt_producer[t])]
    BY DEF Alternate
  <2>3. alt_producer[t] \in Int /\ alt_last_use[t] \in Int
    BY <2>1 DEF First
  <2>4. Later(alt_last_use[t], alt_producer[t]) \in Int
        /\ alt_producer[t] <= Later(alt_last_use[t], alt_producer[t])
    BY <2>3 DEF Later
  <2> QED
    BY <2>1, <2>2, <2>3, <2>4
<1>8. ASSUME NEW e \in Candidates PROVE Entry(e)'
  <2>1. PICK t \in Stored : e = Primary(t) \/ (e = Alternate(t) /\ alt_producer[t] >= 0)
    BY DEF Candidates
  <2>2. /\ e.value = t /\ e.alt \in {0, 1} /\ e.bytes \in Nat \ {0}
        /\ Written(t) /\ Wanted(t) =>
             /\ alt_producer[t] \in Int /\ e.first \in Int /\ e.last \in Int
             /\ e.first <= alt_producer[t] /\ alt_producer[t] <= e.last
    BY <1>6, <1>7, <2>1
  <2> QED
    BY <1>1, <1>3, <2>2 DEF Entry
<1>9. ASSUME NEW v, Written(v), Wanted(v), NEW a \in {0, 1}
      PROVE  \E e \in Candidates : e.value = v /\ e.alt = a
  <2>1. v \in Stored /\ alt_producer[v] >= 0
    BY <1>1, <1>9, Converted
  <2>2. Primary(v) \in Candidates /\ Alternate(v) \in Candidates
    BY <2>1 DEF Candidates
  <2> QED
    BY <1>6, <1>7, <2>1, <2>2
<1> QED
  BY <1>3, <1>4, <1>5, <1>8, <1>9 DEF Planned

LEMMA PlanGoesOn ==
  ASSUME PlanInv, Planned, PlanStep
  PROVE  Planned'
<1>1. (Bump \/ Place) /\ UNCHANGED <<graph, wasm, effective, alias_of, alt_producer>>
  BY DEF PlanStep, model, lowering, uses, places
<1>2. /\ LastNode' = LastNode /\ Values' = Values /\ Heads' = Heads
      /\ \A k : /\ Renames(k)' = Renames(k) /\ OutOf(k)' = OutOf(k)
                /\ In(k, 1)' = In(k, 1)
      /\ \A v : Written(v)' = Written(v) /\ Wanted(v)' = Wanted(v)
  BY <1>1, SameNodes, SameHeads
<1>3. NamesHold(LastNode + 1)'
  <2>1. Named'
    BY <1>1, <1>2 DEF Planned, NamesHold, Named
  <2> QED
    BY <1>1, <1>2, <2>1 DEF Planned, NamesHold
<1>4. /\ \A e \in Entries' : \E d \in Entries : /\ e.value = d.value /\ e.alt = d.alt /\ e.bytes = d.bytes
                                                /\ e.first = d.first /\ e.last = d.last
      /\ \A d \in Entries : \E e \in Entries' : e.value = d.value /\ e.alt = d.alt
  <2>1. CASE Bump
    <3>1. UNCHANGED <<candidates, placed>>
      BY <2>1 DEF Bump, BumpBehind
    <3>2. Entries' = Entries
      BY <3>1 DEF Entries, Elements
    <3> QED
      BY <3>2
  <2>2. CASE Place
    <3>1. PICK c \in candidates : PlaceNext(c)
      BY <2>2 DEF Place
    <3> DEFINE s == Slot(c, Align(offset_tried))
               n == Len(placed) + 1
    <3>2. placed' = Append(placed, s) /\ candidates' = candidates \ {c}
      BY <3>1 DEF PlaceNext
    <3>3. s.value = c.value /\ s.alt = c.alt /\ s.bytes = c.bytes /\ s.first = c.first /\ s.last = c.last
      BY DEF Slot
    <3> HIDE DEF s
    <3>4. /\ DOMAIN placed' = DOMAIN placed \cup {n}
          /\ \A i \in DOMAIN placed : placed'[i] = placed[i]
          /\ placed'[n] = s
      BY <3>2, AppendAny DEF PlanInv, PlanTyped
    <3> HIDE DEF n
    <3>5. Elements(placed)' = Elements(placed) \cup {s}
      <4>1. \A i \in DOMAIN placed : placed[i] \in Elements(placed)'
        BY <3>4 DEF Elements
      <4>2. s \in Elements(placed)'
        BY <3>4 DEF Elements
      <4>3. \A i \in DOMAIN placed' : placed'[i] \in Elements(placed) \cup {s}
        BY <3>4 DEF Elements
      <4> QED
        BY <4>1, <4>2, <4>3 DEF Elements
    <3>6. Entries' = (candidates \ {c}) \cup Elements(placed) \cup {s}
      BY <3>2, <3>5 DEF Entries
    <3> QED
      BY <3>3, <3>6 DEF Entries
  <2> QED
    BY <1>1, <2>1, <2>2
<1>5. \A e \in Entries' : Entry(e)'
  <2> TAKE e \in Entries'
  <2>1. PICK d \in Entries : /\ e.value = d.value /\ e.alt = d.alt /\ e.bytes = d.bytes
                             /\ e.first = d.first /\ e.last = d.last
    BY <1>4
  <2>2. Entry(d)
    BY DEF Planned
  <2> QED
    BY <1>1, <1>2, <2>1, <2>2 DEF Entry
<1>6. \A v : Written(v) /\ Wanted(v) => \A a \in {0, 1} : \E e \in Entries' : e.value = v /\ e.alt = a
  BY <1>4 DEF Planned
<1> QED
  BY <1>2, <1>3, <1>5, <1>6 DEF Planned

-----------------------------------------------------------------------------
(* The second pass.                                                        *)

(* Every value has its places, a name those of what it stands for; a value *)
(* with two has them apart.                                                *)
Settled ==
  /\ NamesHold(LastNode + 1)
  /\ offset = [t \in Values |-> offset[Root(t)]]
  /\ \A v : Written(v) /\ Wanted(v) => offset[v] # alt_offset[v]

(* An operand is read where its value lies in the layout that is wanted,   *)
(* and a result goes to one of the two places of its value.                *)
OperandRight(o) ==
  LET r == Root(o.value)
  IN  \/ o.want = "any" \/ r \in graph.const
      \/ o.offset = offset[r] /\ o.want = Layout(r)
      \/ /\ Wanted(r) /\ o.offset = alt_offset[r]
         /\ o.want = OtherLayout(Layout(r))
OutRight(op) ==
  LET v == op.out.value
  IN  \/ Written(v) /\ op.out.offset = offset[v] /\ op.out.layout = Layout(v)
      \/ /\ Wanted(v) /\ op.out.offset = alt_offset[v]
         /\ op.out.layout = OtherLayout(Layout(v))
         /\ \E o \in op.ins : Root(o.value) = v
Right(op) == OutRight(op) /\ \A o \in op.ins : OperandRight(o)
Table == \A i \in DOMAIN ops : Right(ops[i])

Second ==
  /\ Settled /\ Table /\ ops \in Seq(Elements(ops))
  /\ alt_producer \in [Values -> Int]
  /\ \A v \in Values : alt_producer[v] >= 0 => Wanted(v)

LEMMA LayoutFacts ==
  ASSUME graph \in Graphs, LayoutsInv, NEW t \in Values
  PROVE  Layout(t) \in LayoutNames
BY ProducerIs DEF Layout, LayoutsInv, LayoutNames

(* The table does not depend on what the lowering changes.                 *)
LEMMA SameTable ==
  ASSUME UNCHANGED <<graph, wasm, effective, alias_of, offset, alt_offset>>
  PROVE  /\ Settled' = Settled
         /\ \A t : Root(t)' = Root(t)
         /\ \A op : Right(op)' = Right(op)
<1>1. /\ LastNode' = LastNode /\ Values' = Values /\ Heads' = Heads
      /\ \A k : /\ Renames(k)' = Renames(k) /\ OutOf(k)' = OutOf(k)
                /\ In(k, 1)' = In(k, 1)
      /\ \A v : Written(v)' = Written(v) /\ Wanted(v)' = Wanted(v)
      /\ \A t : Layout(t)' = Layout(t)
  BY SameNodes, SameHeads
<1>2. \A t : Root(t)' = Root(t)
  BY <1>1 DEF Root
<1>3. NamesHold(LastNode + 1)' = NamesHold(LastNode + 1)
  <2>1. Named' = Named
    BY <1>1 DEF Named
  <2> QED
    BY <1>1, <2>1 DEF NamesHold
<1>4. Settled' = Settled
  BY <1>1, <1>2, <1>3 DEF Settled
<1>5. \A o : OperandRight(o)' = OperandRight(o)
  BY <1>1, <1>2 DEF OperandRight, OtherLayout
<1>6. \A op : OutRight(op)' = OutRight(op)
  BY <1>1, <1>2 DEF OutRight, OtherLayout
<1> QED
  BY <1>2, <1>4, <1>5, <1>6 DEF Right

(* An operation that is right makes the table longer.                      *)
LEMMA TableGrows ==
  ASSUME UNCHANGED <<graph, wasm, effective, alias_of, offset, alt_offset>>,
         Second, NEW op, Right(op), ops' = Append(ops, op)
  PROVE  Settled' /\ Table' /\ ops' \in Seq(Elements(ops')) /\ Len(ops) \in Nat
<1>1. ops \in Seq(Elements(ops)) /\ Len(ops) \in Nat
  <2>1. ops \in Seq(Elements(ops))
    BY DEF Second
  <2> QED
    BY <2>1, LenProperties
<1>2. /\ ops' \in Seq(Elements(ops')) /\ DOMAIN ops' = DOMAIN ops \cup {Len(ops) + 1}
      /\ \A i \in DOMAIN ops : ops'[i] = ops[i]
      /\ ops'[Len(ops) + 1] = op
  BY <1>1, AppendAny
<1>3. \A i \in DOMAIN ops' : Right(ops'[i])
  BY <1>2 DEF Second, Table
<1> QED
  BY <1>1, <1>2, <1>3, SameTable DEF Second, Table

(* det_slot_offset chooses the right place for every operand of a node,    *)
(* once the conversions are there.                                         *)
LEMMA OperandsRight ==
  ASSUME graph \in Graphs, LayoutsInv, Second,
         node \in Heads, node \in 1 .. LastNode, ~Renames(node),
         \A k \in ReadAt(node) : \A v : Differs(v, k) => alt_producer[v] >= 0,
         NEW n \in ReadAt(node), NEW t \in Ins(graph, n)
  PROVE  OperandRight(Operand(t, effective[n]))
<1> DEFINE l == effective[n]
           r == Root(t)
           o == Operand(t, l)
<1>1. Named /\ LastNode \in Nat /\ node <= LastNode
  BY GraphFacts DEF Second, Settled, NamesHold
<1>2. n \in 1 .. LastNode /\ t \in Values
  BY ReadAtFacts, GraphFacts
<1>3. l \in LayoutNames /\ Layout(t) \in LayoutNames
  BY <1>2, LayoutFacts DEF LayoutsInv
<1>4. /\ o.value = t
      /\ o.offset = IF Layout(t) = l \/ alt_producer[t] < 0 THEN offset[t] ELSE alt_offset[t]
      /\ o.want = IF IsMap(graph, t) THEN l ELSE IF IsMap(graph, r) THEN "NCHW" ELSE "any"
  BY DEF Operand, SlotOffset, Want
<1>5. offset[t] = offset[r]
  BY <1>2 DEF Second, Settled
<1>6. alt_producer[t] \in Int /\ (alt_producer[t] >= 0 => Wanted(t))
  BY <1>2 DEF Second
<1>7. CASE alias_of[t] = NoTensor
  <2>1. r = t
    BY <1>1, <1>2, <1>7, RootFacts
  <2>2. CASE t \in graph.const \/ ~IsMap(graph, t)
    BY <1>4, <2>1, <2>2 DEF OperandRight
  <2>3. CASE t \notin graph.const /\ IsMap(graph, t) /\ Layout(t) = l
    BY <1>4, <2>1, <2>3 DEF OperandRight
  <2>4. CASE t \notin graph.const /\ IsMap(graph, t) /\ Layout(t) # l
    <3>1. Differs(t, n)
      BY <2>4 DEF Differs
    <3>2. alt_producer[t] >= 0 /\ Wanted(t)
      BY <1>6, <3>1
    <3>3. o.offset = alt_offset[t] /\ o.want = l
      BY <1>4, <1>6, <2>4, <3>2
    <3>4. l = OtherLayout(Layout(t))
      BY <1>3, <2>4 DEF LayoutNames, OtherLayout
    <3>5. Root(o.value) = t
      BY <1>4, <2>1
    <3> HIDE DEF o, l
    <3>6. OperandRight(o)
      BY <3>2, <3>3, <3>4, <3>5 DEF OperandRight
    <3> QED
      BY <3>6 DEF o, l
  <2> QED
    BY <2>2, <2>3, <2>4 DEF o, l
<1>8. CASE alias_of[t] # NoTensor
  <2>1. Renamed(t) /\ Layout(r) = "NCHW" /\ Layout(t) = "NCHW" /\ ~Wanted(t)
        /\ (IsMap(graph, t) => l = "NCHW")
    BY <1>1, <1>2, <1>8, AliasFacts, RootFacts, RenamedFacts, WantedFacts
  <2>2. o.offset = offset[r]
    BY <1>4, <1>5, <1>6, <2>1
  <2>3. o.want = "any" \/ o.want = Layout(r)
    BY <1>4, <2>1
  <2> HIDE DEF o, l, r
  <2> QED
    BY <1>4, <2>2, <2>3 DEF OperandRight, r, o, l
<1> QED
  BY <1>7, <1>8

LEMMA EmitSecond ==
  ASSUME graph \in Graphs, LayoutsInv, Second,
         node \in Heads, node <= LastNode, ~Renames(node),
         UNCHANGED <<graph, wasm, effective, alias_of, offset, alt_offset, alt_producer>>,
         node' = Follow(node), NEW kind, NEW begin, NEW count, NEW ins,
         \A o \in ins : OperandRight(o),
         ops' = Append(ops, Operation(kind, begin, count, ins, Result(node), 0))
  PROVE  Second' /\ node' \in Heads'
<1> DEFINE v == Result(node)
           op == Operation(kind, begin, count, ins, v, 0)
<1>1. Written(v)
  BY DEF Written
<1>2. op.ins = ins /\ op.out.value = v /\ op.out.offset = offset[v] /\ op.out.layout = Layout(v)
  BY DEF Operation
<1> HIDE DEF v, op
<1>3. Right(op)
  BY <1>1, <1>2 DEF Right, OutRight
<1>4. Settled' /\ Table' /\ ops' \in Seq(Elements(ops'))
  BY <1>3, TableGrows DEF op, v
<1>5. Values' = Values /\ Heads' = Heads /\ \A u : Wanted(u)' = Wanted(u)
  BY SameNodes, SameHeads
<1>6. Follow(node) \in Heads
  BY HeadsBelow
<1> QED
  BY <1>4, <1>5, <1>6 DEF Second

LEMMA ConvertSecond ==
  ASSUME graph \in Graphs, LayoutsInv, Second,
         UNCHANGED <<graph, wasm, effective, alias_of, offset, alt_offset>>,
         NEW r \in Values, Wanted(r), NEW n, Convert(r, n)
  PROVE  Second'
<1> DEFINE op == Operation("convert", n, 0,
                   {[value |-> r, offset |-> offset[r], want |-> Layout(r)]}, r, 1)
<1>1. ops' = Append(ops, op) /\ alt_producer' = [alt_producer EXCEPT ![r] = Len(ops)]
  BY DEF Convert, Physical
<1>2. /\ op.ins = {[value |-> r, offset |-> offset[r], want |-> Layout(r)]} /\ op.out.value = r
      /\ op.out.offset = alt_offset[r] /\ op.out.layout = OtherLayout(Layout(r))
  BY DEF Operation
<1>3. Root(r) = r
  <2>1. ~Renamed(r)
    BY WantedFacts
  <2>2. Named
    BY DEF Second, Settled, NamesHold
  <2> QED
    BY <2>1, <2>2, AliasFacts, RootFacts
<1> HIDE DEF op
<1>4. Right(op)
  BY <1>2, <1>3 DEF Right, OutRight, OperandRight
<1>5. Settled' /\ Table' /\ ops' \in Seq(Elements(ops')) /\ Len(ops) \in Nat
  BY <1>1, <1>4, TableGrows
<1>6. Values' = Values /\ \A u : Wanted(u)' = Wanted(u)
  BY SameNodes, SameHeads
<1>7. alt_producer' \in [Values -> Int]
      /\ \A v \in Values : alt_producer'[v] >= 0 => Wanted(v)
  <2>1. Len(ops) \in Int /\ alt_producer \in [Values -> Int]
    BY <1>5 DEF Second
  <2> QED
    BY <1>1, <2>1 DEF Second
<1> QED
  BY <1>5, <1>6, <1>7 DEF Second

(* The second pass, step by step.                                          *)
LEMMA SecondStep ==
  ASSUME graph \in Graphs, LayoutsInv, node \in Heads, Second,
         Lower, ~LowerFails
  PROVE  Second' /\ node' \in Heads'
<1>1. LastNode \in Nat /\ node \in 1 .. LastNode + 1 /\ Named
  BY GraphFacts, HeadsFacts DEF Second, Settled, NamesHold
<1>2. node <= LastNode => node \in 1 .. LastNode /\ node \in Nat
  BY <1>1
<1>3. \A v \in Values : alt_producer[v] \in Int
  BY DEF Second
<1>4. ASSUME node \in 1 .. LastNode, Pending = {}
      PROVE  \A k \in ReadAt(node) : \A v : Differs(v, k) => alt_producer[v] >= 0
  BY <1>1, <1>3, <1>4, PendingFacts
<1>5. CASE LowerAlias
  <2>1. /\ node <= LastNode /\ Renames(node) /\ node' = node + 1
        /\ alias_of' = [alias_of EXCEPT ![OutOf(node)] = In(node, 1)]
        /\ offset' = [offset EXCEPT ![OutOf(node)] = offset[In(node, 1)]]
        /\ UNCHANGED <<graph, wasm, effective, ops, alt_producer, alt_offset>>
    BY <1>5 DEF LowerAlias, model
  <2>2. OutOf(node) \in Values /\ In(node, 1) \in Values /\ In(node, 1) # NoTensor
    BY <1>2, <2>1, GraphFacts DEF NoTensor
  <2>3. alias_of[OutOf(node)] = In(node, 1) /\ alias_of \in [Values -> Nat]
    <3>1. node < LastNode + 1
      BY <1>1, <2>1
    <3> QED
      BY <2>1, <3>1 DEF Second, Settled, NamesHold, Named
  <2>4. alias_of' = alias_of
    BY <2>1, <2>2, <2>3
  <2>5. offset[OutOf(node)] = offset[In(node, 1)]
    <3>1. Root(OutOf(node)) = Root(In(node, 1))
      BY <1>1, <2>2, <2>3, RootIs
    <3> QED
      BY <2>2, <3>1 DEF Second, Settled
  <2>6. offset' = offset
    <3>1. offset = [t \in Values |-> offset[Root(t)]]
      BY DEF Second, Settled
    <3> DEFINE g(t) == offset[Root(t)]
    <3>2. offset = [t \in Values |-> g(t)]
      BY <3>1
    <3> HIDE DEF g
    <3> QED
      BY <2>1, <2>2, <2>5, <3>2
  <2>7. Heads' = Heads /\ Values' = Values /\ \A u : Wanted(u)' = Wanted(u)
    BY <2>1, SameNodes, SameHeads
  <2>8. Settled' /\ Table'
    BY <2>1, <2>4, <2>6, SameTable DEF Second, Table
  <2>9. Follow(node) \in Heads /\ Follow(node) = node + 1
    BY <1>1, <1>2, <2>1, HeadsBelow, SpanFacts DEF Follow
  <2> QED
    BY <2>1, <2>7, <2>8, <2>9 DEF Second, Elements
<1>6. CASE LowerConvert
  <2> DEFINE first == FirstPending
             r == Root(In(first[1], first[2]))
  <2>1. /\ node <= LastNode /\ Pending # {} /\ Convert(r, first[1])
        /\ ~Renames(node)
        /\ UNCHANGED <<graph, wasm, effective, node, alias_of, offset, alt_offset>>
    BY <1>6 DEF LowerConvert, model, places
  <2>2. first[1] \in ReadAt(node) /\ Differs(r, first[1])
    BY <1>1, <1>2, <1>3, <2>1, PendingFacts
  <2> HIDE DEF first, r
  <2>3. Wanted(r)
    BY <2>1, <2>2 DEF Wanted
  <2>4. r \in Values
    BY <2>3, WantedFacts
  <2>5. Second'
    BY <2>1, <2>3, <2>4, ConvertSecond
  <2>6. Heads' = Heads
    BY <2>1, SameHeads
  <2> QED
    BY <2>1, <2>5, <2>6
<1>7. CASE LowerOutput
  <2>1. PICK t \in graph.outputs \ exported :
          /\ IF t \notin graph.neutral /\ Layout(t) = "NHWC"
               THEN Convert(t, Producer(graph, t)) ELSE UNCHANGED <<ops, uses>>
    BY <1>7 DEF LowerOutput
  <2>2. UNCHANGED <<graph, wasm, effective, node, alias_of, offset, alt_offset>>
    BY <1>7 DEF LowerOutput, model, places
  <2>3. Heads' = Heads
    BY <2>2, SameHeads
  <2>4. CASE t \notin graph.neutral /\ Layout(t) = "NHWC"
    <3>1. Wanted(t) /\ t \in Values
      BY <2>1, <2>4, OutputFacts DEF Wanted, Exports
    <3>2. Second'
      BY <2>1, <2>2, <2>4, <3>1, ConvertSecond
    <3> QED
      BY <2>2, <2>3, <3>2
  <2>5. CASE ~(t \notin graph.neutral /\ Layout(t) = "NHWC")
    <3>1. ops' = ops /\ alt_producer' = alt_producer
      BY <2>1, <2>5 DEF uses
    <3>2. Values' = Values /\ \A u : Wanted(u)' = Wanted(u)
      BY <2>2, SameNodes, SameHeads
    <3>3. Settled' /\ Table'
      BY <2>2, <3>1, SameTable DEF Second, Table
    <3> QED
      BY <2>2, <2>3, <3>1, <3>2, <3>3 DEF Second, Elements
  <2> QED
    BY <2>4, <2>5
<1>8. CASE LowerGelu
  <2> DEFINE o == Operand(ChainSource(graph, node), effective[node])
  <2>1. /\ AtGelu /\ Pending = {} /\ node <= LastNode
        /\ ops' = Append(ops, Operation("gelu", node, 5, {o}, OutOf(node + 4), 0))
        /\ node' = node + 5
        /\ UNCHANGED <<graph, wasm, effective, alias_of, offset, alt_offset, alt_producer>>
    BY <1>8 DEF LowerGelu, AtGelu, model, places
  <2>2. ~Renames(node) /\ Follow(node) = node + 5 /\ Result(node) = OutOf(node + 4)
        /\ GeluAt(graph, node)
    BY <1>1, <1>2, <2>1, TakenNodes DEF Result
  <2>3. node \in ReadAt(node) /\ ChainSource(graph, node) \in Ins(graph, node)
    <3>1. node \in node .. node + 4 /\ In(node, 1) \in Ins(graph, node)
      BY <1>2, <2>1, GraphFacts
    <3> QED
      BY <2>2, <3>1 DEF ReadAt, ChainSource, In
  <2>4. \A k \in ReadAt(node) : \A v : Differs(v, k) => alt_producer[v] >= 0
    BY <1>2, <1>4, <2>1
  <2>5. OperandRight(o)
    BY <1>2, <2>1, <2>2, <2>3, <2>4, OperandsRight
  <2> HIDE DEF o
  <2> QED
    BY <2>1, <2>2, <2>5, EmitSecond
<1>9. CASE LowerNode
  <2>1. /\ ~AtGelu /\ ~Renames(node) /\ Pending = {} /\ node <= LastNode
        /\ ~Folds(node)
        /\ ops' = Append(ops, IF Op(node) = "conv" THEN ConvOperation(node, 1, {}, OutOf(node))
                     ELSE Operation(Op(node), node, 1, Operands(node), OutOf(node), 0))
        /\ node' = node + 1
        /\ UNCHANGED <<graph, wasm, effective, alias_of, offset, alt_offset, alt_producer>>
    BY <1>9 DEF LowerNode, AtNode, model, places
  <2>2. Follow(node) = node + 1 /\ Result(node) = OutOf(node)
    BY <1>1, <1>2, <2>1, TakenNodes DEF Result
  <2>3. Operands(node) \cup {} = Operands(node)
    OBVIOUS
  <2>4. PICK kind : ops' = Append(ops, Operation(kind, node, 1, Operands(node), OutOf(node), 0))
    <3>1. ConvOperation(node, 1, {}, OutOf(node))
            = Operation("conv", node, 1, Operands(node), OutOf(node), 0)
      BY <2>3 DEF ConvOperation
    <3> QED
      BY <2>1, <3>1
  <2>5. \A k \in ReadAt(node) : \A v : Differs(v, k) => alt_producer[v] >= 0
    BY <1>2, <1>4, <2>1
  <2>6. \A o \in Operands(node) : OperandRight(o)
    <3>1. ~GeluAt(graph, node) /\ node \in ReadAt(node)
      BY <1>1, <1>2, <2>1, TakenNodes DEF ReadAt
    <3>2. \A t \in Ins(graph, node) : OperandRight(Operand(t, effective[node]))
      BY <1>2, <2>1, <2>5, <3>1, OperandsRight
    <3> QED
      BY <3>2 DEF Operands
  <2> QED
    BY <2>1, <2>2, <2>4, <2>6, EmitSecond
<1>10. CASE LowerConv
  <2> DEFINE f == Fold(node)
             residual == {f.residual} \ {NoTensor}
             more == {Operand(t, "NHWC") : t \in residual}
  <2>1. /\ ~AtGelu /\ ~Renames(node) /\ Pending = {} /\ node <= LastNode
        /\ Folds(node)
        /\ ops' = Append(ops, ConvOperation(node, f.span, more, f.out))
        /\ node' = node + f.span
        /\ UNCHANGED <<graph, wasm, effective, alias_of, offset, alt_offset, alt_producer>>
    BY <1>10 DEF LowerConv, AtNode, model, places
  <2>2. Folded(node, f) /\ Follow(node) = node + f.span /\ Result(node) = f.out
    BY <1>1, <1>2, <2>1, TakenNodes
  <2>3. ops' = Append(ops, Operation("conv", node, f.span, Operands(node) \cup more, Result(node), 0))
    BY <2>1, <2>2 DEF ConvOperation
  <2> HIDE DEF f
  <2>4. \A k \in ReadAt(node) : \A v : Differs(v, k) => alt_producer[v] >= 0
    BY <1>2, <1>4, <2>1
  <2>5. \A o \in Operands(node) : OperandRight(o)
    <3>1. ~GeluAt(graph, node) /\ node \in ReadAt(node)
      BY <1>1, <1>2, <2>1, TakenNodes DEF ReadAt
    <3>2. \A t \in Ins(graph, node) : OperandRight(Operand(t, effective[node]))
      BY <1>2, <2>1, <2>4, <3>1, OperandsRight
    <3> QED
      BY <3>2 DEF Operands
  <2>6. ASSUME NEW t \in residual PROVE OperandRight(Operand(t, "NHWC"))
    <3>1. t = f.residual /\ f.residual # NoTensor
      BY DEF NoTensor
    <3>2. t \in Values /\ t \notin graph.const /\ Layout(t) = "NHWC"
      BY <2>2, <3>1 DEF Folded
    <3>3. ~Renamed(t)
      BY <3>2, RenamedFacts
    <3>4. Root(t) = t
      BY <1>1, <3>2, <3>3, AliasFacts, RootFacts
    <3> DEFINE o == Operand(t, "NHWC")
    <3>5. o.value = t /\ o.offset = offset[t]
          /\ o.want = (IF IsMap(graph, t) THEN "NHWC" ELSE "any")
      BY <3>2, <3>4 DEF Operand, SlotOffset, Want
    <3> HIDE DEF o
    <3>6. OperandRight(o)
      BY <3>2, <3>4, <3>5 DEF OperandRight
    <3> QED
      BY <3>6 DEF o
  <2>7. \A o \in Operands(node) \cup more : OperandRight(o)
    <3> HIDE DEF residual
    <3> QED
      BY <2>5, <2>6
  <2> HIDE DEF more
  <2> QED
    BY <2>1, <2>2, <2>3, <2>7, EmitSecond
<1> QED
  BY <1>5, <1>6, <1>7, <1>8, <1>9, <1>10 DEF Lower

(* Between the passes the values get the places of the plan.               *)
LEMMA SecondBegins ==
  ASSUME graph \in Graphs, LayoutsInv, PlanInv, Planned, BeginSecondPass
  PROVE  Second' /\ node' \in Heads'
<1>1. /\ candidates = {} /\ node' = 1 /\ ops' = <<>>
      /\ offset' = [t \in Values |-> OffsetOf(Root(t), 0)]
      /\ alt_offset' = [t \in Values |-> OffsetOf(Root(t), 1)]
      /\ alt_producer' = [t \in Values |-> -1]
      /\ UNCHANGED <<graph, wasm, effective, alias_of>>
  BY DEF BeginSecondPass, ForgetAlternates, Unused, OffsetOf, model
<1>2. /\ LastNode' = LastNode /\ Values' = Values /\ Heads' = Heads
      /\ \A k : /\ Renames(k)' = Renames(k) /\ OutOf(k)' = OutOf(k)
                /\ In(k, 1)' = In(k, 1)
      /\ \A v : Written(v)' = Written(v) /\ Wanted(v)' = Wanted(v)
  BY <1>1, SameNodes, SameHeads
<1>3. \A t : Root(t)' = Root(t)
  BY <1>1, <1>2 DEF Root
<1>4. Named /\ NamesHold(LastNode + 1)'
  <2>1. Named /\ Named'
    BY <1>1, <1>2 DEF Planned, NamesHold, Named
  <2> QED
    BY <1>1, <1>2, <2>1 DEF Planned, NamesHold
<1>5. \A t \in Values : Root(t) \in Values /\ Root(Root(t)) = Root(t)
  BY <1>4, RootFacts
<1>6. offset' = [t \in Values |-> offset'[Root(t)]]
  <2>1. \A t \in Values : offset'[Root(t)] = OffsetOf(Root(t), 0)
    BY <1>1, <1>5
  <2> QED
    BY <1>1, <2>1
<1>7. ASSUME NEW v, Written(v), Wanted(v) PROVE offset'[v] # alt_offset'[v]
  <2>1. v \in Values /\ Root(v) = v
    BY <1>4, <1>7, WrittenFacts, AliasFacts, RootFacts
  <2>2. Entries = Elements(placed)
    BY <1>1 DEF Entries
  <2>3. ASSUME NEW a \in {0, 1}
        PROVE  \E p \in DOMAIN placed : placed[p].value = v /\ placed[p].alt = a
                                        /\ OffsetOf(v, a) = placed[p].offset
    <3>1. \E p \in DOMAIN placed : placed[p].value = v /\ placed[p].alt = a
      BY <1>7, <2>2 DEF Planned, Elements
    <3> QED
      BY <3>1 DEF OffsetOf
  <2>4. PICK p \in DOMAIN placed : placed[p].value = v /\ placed[p].alt = 0
                                   /\ OffsetOf(v, 0) = placed[p].offset
    BY <2>3
  <2>5. PICK q \in DOMAIN placed : placed[q].value = v /\ placed[q].alt = 1
                                   /\ OffsetOf(v, 1) = placed[q].offset
    BY <2>3
  <2>6. Entry(placed[p]) /\ Entry(placed[q])
    BY <2>2 DEF Planned, Elements
  <2>7. SameTime(placed[p], placed[q]) /\ p # q
        /\ placed[p].bytes \in Nat \ {0} /\ placed[q].bytes \in Nat \ {0}
    BY <1>7, <2>4, <2>5, <2>6 DEF Entry, SameTime
  <2>8. ~Overlap(placed[p].offset, placed[p].bytes, placed[q].offset, placed[q].bytes)
    BY <2>7 DEF PlanInv, PlacesDisjoint
  <2>9. placed[p].offset # placed[q].offset
    <3>1. placed[p].offset \in Nat /\ placed[q].offset \in Nat
      BY DEF PlanInv, PlanTyped
    <3> QED
      BY <2>7, <2>8, <3>1 DEF Overlap
  <2> QED
    BY <1>1, <2>1, <2>4, <2>5, <2>9
<1>8. Settled'
  <2>1. [t \in Values |-> offset[Root(t)]]' = [t \in Values |-> offset'[Root(t)]]
    BY <1>2, <1>3
  <2> QED
    BY <1>2, <1>4, <1>6, <1>7, <2>1 DEF Settled
<1>9. Table' /\ ops' \in Seq(Elements(ops'))
  <2>1. \A T : << >> \in Seq(T)
    BY EmptySeq
  <2>2. DOMAIN ops' = {}
    BY <1>1
  <2> QED
    BY <1>1, <2>1, <2>2 DEF Table
<1>10. alt_producer' \in [Values -> Int] /\ \A v \in Values : ~(alt_producer'[v] >= 0)
  BY <1>1
<1>11. 1 \in Heads
  BY HeadsFacts
<1> QED
  BY <1>1, <1>2, <1>8, <1>9, <1>10, <1>11 DEF Second

-----------------------------------------------------------------------------
(* A run.                                                                  *)

(* What the arena holds are values in one of their two places, each in the *)
(* layout that belongs there.                                              *)
Kept(m) ==
  /\ Written(m.value)
  /\ \/ m.offset = offset[m.value] /\ m.layout = Layout(m.value)
     \/ /\ Wanted(m.value) /\ m.offset = alt_offset[m.value]
        /\ m.layout = OtherLayout(Layout(m.value))
Memory == \A m \in memory : Kept(m)

LEMMA ReadsRight ==
  ASSUME graph \in Graphs, LayoutsInv, Settled, Memory,
         NEW o, OperandRight(o)
  PROVE  RightLayout(memory, o)
<1> SUFFICES ASSUME NEW m \in Holds(memory, o) PROVE o.want \in {m.layout, "any"}
  BY DEF RightLayout
<1> DEFINE r == Root(o.value)
<1>1. m \in memory /\ m.value = r /\ m.offset = o.offset
  BY DEF Holds
<1>2. Kept(m) /\ Written(r)
  BY <1>1 DEF Memory, Kept
<1>3. r \notin graph.const /\ (Wanted(r) => offset[r] # alt_offset[r])
  BY <1>2, WrittenFacts DEF Settled
<1> HIDE DEF r
<1>4. \/ o.want = "any"
      \/ o.offset = offset[r] /\ o.want = Layout(r)
      \/ Wanted(r) /\ o.offset = alt_offset[r] /\ o.want = OtherLayout(Layout(r))
  BY <1>3 DEF OperandRight, r
<1>5. \/ m.offset = offset[r] /\ m.layout = Layout(r)
      \/ Wanted(r) /\ m.offset = alt_offset[r] /\ m.layout = OtherLayout(Layout(r))
  BY <1>1, <1>2 DEF Kept
<1> QED
  BY <1>1, <1>3, <1>4, <1>5

LEMMA Performs ==
  ASSUME graph \in Graphs, LayoutsInv, Settled, Table, Memory,
         NEW K, NEW L, Perform(K, L), at \in DOMAIN ops
  PROVE  Memory'
<1> DEFINE op == ops[at]
           out == [value |-> op.out.value, offset |-> op.out.offset, layout |-> op.out.layout]
<1>1. /\ memory' = Write(memory, op, Good(memory, op))
      /\ UNCHANGED <<graph, wasm, effective, alias_of, offset, alt_offset>>
  BY DEF Perform, model, lowering, places
<1>2. Right(op)
  BY DEF Table
<1> HIDE DEF op
<1>3. \A m : Kept(m)' = Kept(m)
  BY <1>1, SameNodes, SameHeads DEF Kept, OtherLayout
<1>4. ASSUME NEW m \in memory' PROVE Kept(m)
  <2>1. m \in memory \/ (Good(memory, op) /\ m = out)
    BY <1>1 DEF Write
  <2>2. CASE m \in memory
    BY <2>2 DEF Memory
  <2>3. CASE Good(memory, op) /\ m = out
    <3> DEFINE v == op.out.value
    <3>1. m.value = v /\ m.offset = op.out.offset /\ m.layout = op.out.layout
      BY <2>3
    <3> HIDE DEF v
    <3>2. CASE Written(v) /\ op.out.offset = offset[v] /\ op.out.layout = Layout(v)
      BY <3>1, <3>2 DEF Kept
    <3>3. CASE /\ Wanted(v) /\ op.out.offset = alt_offset[v]
               /\ op.out.layout = OtherLayout(Layout(v))
               /\ \E o \in op.ins : Root(o.value) = v
      <4>1. PICK o \in op.ins : Root(o.value) = v
        BY <3>3
      <4>2. PICK k \in memory : k.value = v
        BY <2>3, <4>1 DEF Good, Holds
      <4>3. Written(v)
        BY <4>2 DEF Memory, Kept
      <4> QED
        BY <3>1, <3>3, <4>3 DEF Kept
    <3> QED
      BY <1>2, <3>2, <3>3 DEF Right, OutRight, v
  <2> QED
    BY <2>1, <2>2, <2>3
<1> QED
  BY <1>3, <1>4 DEF Memory

-----------------------------------------------------------------------------
(* All of it.                                                              *)

(* Before and after a step alike, every operation has a result.            *)
ResultsExist ==
  graph \in Graphs =>
    /\ LastNode \in Nat /\ 1 \in Heads
    /\ \A h \in Heads : h \in Nat /\ h >= 1 /\ (h <= LastNode => Result(h) \in Values)
LEMMA ResultsAlwaysExist == ResultsExist /\ ResultsExist'
<1>1. ResultsExist
  <2> SUFFICES ASSUME graph \in Graphs
               PROVE  /\ LastNode \in Nat /\ 1 \in Heads
                      /\ \A h \in Heads : h \in Nat /\ h >= 1 /\ (h <= LastNode => Result(h) \in Values)
    BY DEF ResultsExist
  <2>1. LastNode \in Nat /\ 1 \in Heads /\ \A h \in Heads : h \in Nat /\ h >= 1
    BY GraphFacts, HeadsFacts
  <2>2. ASSUME NEW h \in Heads, h <= LastNode PROVE Result(h) \in Values
    <3>1. h \in 1 .. LastNode
      BY <2>2, HeadsFacts
    <3>2. Last(h) \in 1 .. LastNode
      BY <2>1, <3>1, SpanFacts
    <3> QED
      BY <3>2, GraphFacts DEF Result
  <2> QED
    BY <2>1, <2>2
<1> QED
  BY <1>1, PTL

Fresh ==
  /\ pass = 1 /\ node = 1 /\ exported = {} /\ ops = <<>>
  /\ producer = Unused /\ last_use = Unused
  /\ alt_producer = Unused /\ alt_last_use = Unused
  /\ alias_of = [t \in Values |-> NoTensor]

(* The first pass begins with nothing lowered.                             *)
LEMMA FirstBegins ==
  ASSUME graph \in Graphs, Fresh, PlanLayouts
  PROVE  First' /\ node' \in Heads'
<1>1. UNCHANGED <<graph, node, exported, ops, producer, last_use, alt_producer, alt_last_use, alias_of>>
  BY DEF PlanLayouts, model, uses, places
<1>2. LastNode' \in Nat /\ 1 \in Heads' /\ Values' = Values
      /\ \A h \in Heads' : h \in Nat /\ h >= 1 /\ (h <= LastNode' => Result(h)' \in Values)
  <2>1. graph' \in Graphs
    BY <1>1
  <2>2. Values' = Values
    BY <1>1 DEF Values
  <2> QED
    BY <2>1, <2>2, ResultsAlwaysExist DEF ResultsExist
<1>3. node' = 1 /\ exported' = {} /\ Len(ops') = 0
      /\ producer' = [t \in Values |-> -1] /\ last_use' = [t \in Values |-> -1]
      /\ alt_producer' = [t \in Values |-> -1] /\ alt_last_use' = [t \in Values |-> -1]
      /\ alias_of' = [t \in Values |-> NoTensor]
  BY <1>1 DEF Fresh, Unused
<1>4. \A h \in Heads' : ~(h < 1)
  BY <1>2
<1>5. NamesHold(node)'
  <2>1. Named'
    BY <1>2, <1>3 DEF Named, NoTensor
  <2> QED
    BY <1>3, <1>4, <2>1 DEF NamesHold
<1>6. -1 \in -1 .. 0 /\ -1 \in -1 .. 0 + 1 /\ -1 < 0 /\ -1 <= -1 /\ -1 \in Int
  OBVIOUS
<1>7. /\ \A h \in Heads' : node' <= h /\ h <= LastNode' /\ ~Renames(h)' =>
           alt_producer'[Result(h)'] = -1
  BY <1>2, <1>3
<1>8. First'
  BY <1>2, <1>3, <1>4, <1>5, <1>6, <1>7 DEF First
<1> QED
  BY <1>2, <1>3, <1>8

(* The inductive invariant: what holds where the program is.               *)
Ready == Settled /\ Table /\ ops \in Seq(Elements(ops))
Inv ==
  /\ ArenaInv
  /\ pc = "layouts" => Fresh
  /\ pc # "layouts" => LayoutsInv
  /\ pc = "lower" => /\ node \in Heads /\ pass \in {1, 2}
                     /\ pass = 1 => First
                     /\ pass = 2 => Second
  /\ pc = "plan" => Planned
  /\ pc \in {"ready", "run", "done"} => Ready
  /\ pc = "run" => Memory /\ at \in Nat \ {0}

LEMMA Stutters ==
  ASSUME Inv, UNCHANGED vars
  PROVE  Inv'
<1>1. UNCHANGED <<graph, wasm, effective, pc, pass, node, exported, ops, producer, last_use,
                  alt_producer, alt_last_use, alias_of, offset, alt_offset, candidates, placed,
                  offset_tried, arena_bytes, at, memory>>
  BY DEF vars, model, lowering, uses, places, plan, running
<1>2. /\ LastNode' = LastNode /\ Values' = Values /\ Heads' = Heads
      /\ \A k : /\ Renames(k)' = Renames(k) /\ OutOf(k)' = OutOf(k)
                /\ In(k, 1)' = In(k, 1) /\ Result(k)' = Result(k)
                /\ ReadAt(k)' = ReadAt(k)
      /\ \A v, k : Differs(v, k)' = Differs(v, k)
      /\ \A v : Written(v)' = Written(v) /\ Wanted(v)' = Wanted(v) /\ Exports(v)' = Exports(v)
      /\ \A t : Layout(t)' = Layout(t)
      /\ LayoutsInv' = LayoutsInv
  BY <1>1, SameNodes, SameHeads
<1>3. Named' = Named
  BY <1>1, <1>2 DEF Named
<1>4. First' = First
  BY <1>1, <1>2, <1>3 DEF First, NamesHold
<1>5. Settled' = Settled /\ Table' = Table
  BY <1>1, SameTable DEF Table
<1>6. Second' = Second /\ Ready' = Ready
  BY <1>1, <1>2, <1>5 DEF Second, Ready, Elements
<1>7. Planned' = Planned
  <2>1. Entries' = Entries
    BY <1>1 DEF Entries, Elements
  <2>2. \A e : Entry(e)' = Entry(e)
    BY <1>1, <1>2 DEF Entry
  <2>3. NamesHold(LastNode + 1)' = NamesHold(LastNode + 1)
    BY <1>1, <1>2, <1>3 DEF NamesHold
  <2> QED
    BY <1>2, <2>1, <2>2, <2>3 DEF Planned
<1>8. Memory' = Memory
  BY <1>1, <1>2 DEF Memory, Kept, OtherLayout
<1>9. ArenaInv'
  BY <1>1, PlanUntouched DEF Inv, ArenaInv, plan
<1>10. Fresh' = Fresh
  BY <1>1, <1>2 DEF Fresh, Unused
<1> QED
  BY <1>1, <1>2, <1>4, <1>6, <1>7, <1>8, <1>9, <1>10 DEF Inv

(* Begin, an operation, a failure, the end: the program stays as it is.    *)
LEMMA Runs ==
  ASSUME Inv, Run, ArenaInv'
  PROVE  Inv'
<1>1. UNCHANGED <<graph, wasm, effective, ops, alias_of, offset, alt_offset>>
  BY DEF Run, Begin, RunOp, RunConvNchw, RunConvNhwc, RunConvert, RunTransposed,
     RunPlanes, RunConcat, RunAffine, RunBinary, RunUnary, RunReduce, RunPool,
     Perform, RunFails, Finish, model, lowering, places
<1>2. pc \in {"ready", "run", "done"} /\ pc' \in {"ready", "run", "done"}
  BY DEF Run, Begin, RunOp, RunConvNchw, RunConvNhwc, RunConvert, RunTransposed,
     RunPlanes, RunConcat, RunAffine, RunBinary, RunUnary, RunReduce, RunPool,
     Perform, RunFails, Finish
<1>3. LayoutsInv /\ Ready /\ graph \in Graphs
  BY <1>2 DEF Inv, ArenaInv
<1>4. LayoutsInv' /\ Ready'
  <2>1. LayoutsInv' = LayoutsInv
    BY <1>1, SameNodes
  <2>2. Settled' = Settled /\ Table' = Table
    BY <1>1, SameTable DEF Table
  <2> QED
    BY <1>1, <1>3, <2>1, <2>2 DEF Ready, Elements
<1>5. pc' = "run" => Memory' /\ at' \in Nat \ {0}
  <2>1. CASE Begin
    <3>1. at' = 1 /\ memory' = {[value |-> graph.input, offset |-> offset[graph.input],
                                 layout |-> IF DirectInput THEN "NHWC" ELSE "NCHW"]}
      BY <2>1 DEF Begin
    <3>2. Layout(graph.input) = IF DirectInput THEN "NHWC" ELSE "NCHW"
      BY DEF Layout, DirectInput, InputCanStartNhwc, IsMap
    <3>3. \A m \in memory' : m.value = graph.input /\ m.offset = offset[graph.input]
                             /\ m.layout = Layout(graph.input)
      BY <3>1, <3>2
    <3>4. \A m : Kept(m)' = Kept(m)
      BY <1>1, SameNodes, SameHeads DEF Kept, OtherLayout
    <3>5. \A m \in memory' : Kept(m)
      BY <3>3 DEF Kept, Written
    <3> QED
      BY <3>1, <3>4, <3>5 DEF Memory
  <2>2. CASE RunOp
    <3>1. PICK K, L : Perform(K, L)
      BY <2>2 DEF RunOp, RunConvNchw, RunConvNhwc, RunConvert, RunTransposed,
         RunPlanes, RunConcat, RunAffine, RunBinary, RunUnary, RunReduce,
         RunPool
    <3>2. pc = "run" /\ at <= Len(ops) /\ at' = at + 1
      BY <3>1 DEF Perform
    <3>3. at \in Nat \ {0} /\ Memory
      BY <3>2 DEF Inv
    <3>4. at \in DOMAIN ops
      BY <1>3, <3>2, <3>3, LenProperties DEF Ready
    <3>5. Memory'
      BY <1>3, <3>1, <3>3, <3>4, Performs DEF Ready
    <3> QED
      BY <3>2, <3>3, <3>5
  <2>3. CASE RunFails \/ Finish
    BY <2>3 DEF RunFails, Finish
  <2> QED
    BY <2>1, <2>2, <2>3 DEF Run
<1> QED
  BY <1>2, <1>4, <1>5 DEF Inv

LEMMA InvStep ==
  ASSUME Inv, [Next]_vars
  PROVE  Inv'
<1>1. ArenaInv' /\ graph \in Graphs /\ PlanInv
  BY ArenaStep DEF Inv, ArenaInv
<1>2. CASE PlanLayouts
  <2>1. pc = "layouts" /\ pc' \in {"rejected", "lower"} /\ pass' = pass
    BY <1>2 DEF PlanLayouts
  <2>2. Fresh /\ pass = 1
    BY <2>1 DEF Inv, Fresh
  <2>3. LayoutsInv' /\ First' /\ node' \in Heads'
    BY <1>1, <1>2, <2>2, LayoutsPlanned, FirstBegins
  <2> QED
    BY <1>1, <2>1, <2>2, <2>3 DEF Inv
<1>3. CASE Lower
  <2>1. pc = "lower" /\ UNCHANGED <<graph, wasm, effective, pass>>
    BY <1>3 DEF Lower, LowerConvert, LowerGelu, LowerAlias, LowerNode, LowerConv,
       LowerFails, LowerOutput, AtNode, model, lowering
  <2>2. LayoutsInv' /\ LayoutsInv
    BY <2>1, SameNodes DEF Inv
  <2>3. CASE LowerFails
    <3>1. pc' = "rejected"
      BY <2>3 DEF LowerFails
    <3> QED
      BY <1>1, <2>2, <3>1 DEF Inv
  <2>4. CASE ~LowerFails
    <3>1. pc' = pc
      BY <1>3, <2>4 DEF Lower, LowerConvert, LowerGelu, LowerAlias, LowerNode,
         LowerConv, LowerOutput
    <3>2. node \in Heads /\ (pass = 1 => First) /\ (pass = 2 => Second)
      BY <2>1 DEF Inv
    <3>3. pass = 1 => First' /\ node' \in Heads'
      BY <1>1, <1>3, <2>2, <2>4, <3>2, FirstStep
    <3>4. pass = 2 => Second' /\ node' \in Heads'
      BY <1>1, <1>3, <2>2, <2>4, <3>2, SecondStep
    <3>5. pass \in {1, 2}
      BY <2>1 DEF Inv
    <3> QED
      BY <1>1, <2>1, <2>2, <3>1, <3>3, <3>4, <3>5 DEF Inv
  <2> QED
    BY <2>3, <2>4
<1>4. CASE EndFirstPass
  <2>1. pc = "lower" /\ pass = 1 /\ pc' = "plan" /\ UNCHANGED <<graph, wasm, effective>>
    BY <1>4 DEF EndFirstPass, Lowered, model, lowering
  <2>2. LayoutsInv' /\ LayoutsInv /\ First /\ node \in Heads
    BY <2>1, SameNodes DEF Inv
  <2>3. Planned'
    BY <1>1, <1>4, <2>2, PlanStarts
  <2> QED
    BY <1>1, <2>1, <2>2, <2>3 DEF Inv
<1>5. CASE PlanStep
  <2>1. pc = "plan" /\ pc' = pc /\ UNCHANGED <<graph, wasm, effective>>
    BY <1>5 DEF PlanStep, model, lowering
  <2>2. LayoutsInv' /\ Planned'
    BY <1>1, <1>5, <2>1, SameNodes, PlanGoesOn DEF Inv
  <2> QED
    BY <1>1, <2>1, <2>2 DEF Inv
<1>6. CASE BeginSecondPass
  <2>1. pc = "plan" /\ pc' = "lower" /\ pass' = 2 /\ UNCHANGED <<graph, wasm, effective>>
    BY <1>6 DEF BeginSecondPass, model
  <2>2. LayoutsInv' /\ LayoutsInv /\ Planned
    BY <2>1, SameNodes DEF Inv
  <2>3. Second' /\ node' \in Heads'
    BY <1>1, <1>6, <2>2, SecondBegins
  <2> QED
    BY <1>1, <2>1, <2>2, <2>3 DEF Inv
<1>7. CASE EndSecondPass
  <2>1. /\ pc = "lower" /\ pass = 2 /\ pc' \in {"rejected", "ready"}
        /\ UNCHANGED <<graph, wasm, effective, ops, alias_of, offset, alt_offset>>
    BY <1>7 DEF EndSecondPass, Lowered, model, lowering, places
  <2>2. LayoutsInv' /\ Second
    BY <2>1, SameNodes DEF Inv
  <2>3. Ready'
    BY <2>1, <2>2, SameTable DEF Second, Ready, Table, Elements
  <2> QED
    BY <1>1, <2>1, <2>2, <2>3 DEF Inv
<1>8. CASE Run
  BY <1>1, <1>8, Runs
<1>9. CASE UNCHANGED vars
  BY <1>9, Stutters
<1> QED
  BY <1>2, <1>3, <1>4, <1>5, <1>6, <1>7, <1>8, <1>9 DEF Next, Compile

(* No operation of a run of the compiled detection program reads a map in  *)
(* the wrong layout: materialize_input_converts has put the conversions in *)
(* front of it, and det_slot_offset chose the slot, that its kernel needs, *)
(* whatever the graph, the fusions and the plan of the arena.              *)
THEOREM LayoutsAlwaysMatch ==
  Spec => []LayoutsMatch
<1>1. Init => Inv
  <2> SUFFICES ASSUME Init PROVE Inv
    OBVIOUS
  <2>1. pc = "layouts" /\ Fresh /\ ArenaInv
    BY PlanInitially DEF Init, Fresh, ArenaInv, NoTensor
  <2> QED
    BY <2>1 DEF Inv
<1>2. Inv /\ [Next]_vars => Inv'
  BY InvStep
<1>3. Inv => LayoutsMatch
  <2> SUFFICES ASSUME Inv, pc = "run", at <= Len(ops), NEW o \in ops[at].ins
               PROVE  RightLayout(memory, o)
    BY DEF LayoutsMatch
  <2>1. LayoutsInv /\ Ready /\ Memory /\ at \in Nat \ {0} /\ graph \in Graphs
    BY DEF Inv, ArenaInv
  <2>2. at \in DOMAIN ops
    BY <2>1, LenProperties DEF Ready
  <2>3. OperandRight(o)
    BY <2>1, <2>2 DEF Ready, Table, Right
  <2> QED
    BY <2>1, <2>3, ReadsRight DEF Ready
<1>4. QED
  BY <1>1, <1>2, <1>3, PTL DEF Spec

=============================================================================
